---- MODULE Spec2Model ----
(***************************************************************************)
(* State-machine model of the HDB BTO application system (src/main.py):    *)
(* the application lifecycle, the eligibility gate, the withdrawal flow,   *)
(* officer registration, the unit inventory of a project, the loading of   *)
(* projects from the project file, the apply choice of the menus with its  *)
(* application period check, the receipt and report operations, the        *)
(* project list shown to a person, the project registry with its IDs, the  *)
(* manager's queues, and the two-step form of applying and of approving an *)
(* officer that interleaved callers would take.                            *)
(*                                                                         *)
(* Objects are modelled by identity: a user is a key of all_users, a       *)
(* project a key of projects, an Application object is its index in the    *)
(* controller's list (objects are appended once and never removed).        *)
(* A call that is refused prints a message and returns (or raises) before  *)
(* it has written anything: it leaves every variable unchanged, and the    *)
(* message it prints is the value of the operation's _msg operator in that *)
(* state. `last` records the last call that was carried out.               *)
(***************************************************************************)
EXTENDS Integers, Sequences, FiniteSets, TLC

VARIABLES
    all_users,            \* user id -> [cls, age, marital_status]
    projects,             \* project id -> the fields of a BTOProject
    applications,         \* ApplicationController.applications (index = object identity)
    user_applications,    \* Applicant.applications: user id -> sequence of application indices
    handling_project,     \* HDBOfficer.handling_project
    registration_status,  \* HDBOfficer.registration_status
    registered_project,   \* HDBOfficer.registered_project
    project_counter,      \* BTOProject.project_counter
    controller_projects,  \* ProjectController.projects: sequence of project objects
    in_flight,            \* calls that have made their checks and not yet written
    last                  \* the last call carried out: [op, msg]

vars == <<all_users, projects, applications, user_applications,
          handling_project, registration_status, registered_project,
          project_counter, controller_projects, in_flight, last>>

-----------------------------------------------------------------------------
(* Bounds of the model *)

MaxApps == 2        \* applications ever created in one run
MaxUnits == 1       \* cap on a unit count (a negative "number booked" raises it)
MaxCount == 2       \* largest "number of units booked" typed by an officer
MinAge == 19        \* ages drawn for the eligibility gate
MaxAge == 36
MaxSlot == 1        \* largest officer slot capacity of a project
MaxProjects == 3    \* projects ever created in one run
MaxInFlight == 2    \* calls between their check and their act at one time

-----------------------------------------------------------------------------
(* Values *)

None == "None"      \* Python's None

\* Strings that the code inspects character by character are sequences of
\* one-character strings.
Str_Single == <<"S", "i", "n", "g", "l", "e">>
Str_single == <<"s", "i", "n", "g", "l", "e">>
Str_SINGLE == <<"S", "I", "N", "G", "L", "E">>
Str_Married == <<"M", "a", "r", "r", "i", "e", "d">>
Str_MARRIED == <<"M", "A", "R", "R", "I", "E", "D">>
Str_Divorced == <<"D", "i", "v", "o", "r", "c", "e", "d">>

MaritalInputs == {Str_Single, Str_single, Str_SINGLE, Str_Married, Str_MARRIED, Str_Divorced}

UpperCase == <<"A","B","C","D","E","F","G","H","I","J","K","L","M",
               "N","O","P","Q","R","S","T","U","V","W","X","Y","Z">>
LowerCase == <<"a","b","c","d","e","f","g","h","i","j","k","l","m",
               "n","o","p","q","r","s","t","u","v","w","x","y","z">>

\* str.lower(), one character
LowerChar(c) ==
    IF \E i \in DOMAIN UpperCase : UpperCase[i] = c
    THEN LowerCase[CHOOSE i \in DOMAIN UpperCase : UpperCase[i] = c]
    ELSE c

\* str.lower()
Lower(s) == [i \in DOMAIN s |-> LowerChar(s[i])]

\* Flat type labels an operation can be called with ("4-Room" is a label no
\* eligibility rule and no loaded project knows).
FlatTypeArgs == {"2-Room", "3-Room", "4-Room"}

\* Texts typed at the "Enter choice number" prompt of requestWithdrawal: the
\* numbers 0 .. MaxApps + 1 and a text that is no number
DigitText == <<"0", "1", "2", "3", "4", "5", "6", "7", "8", "9">>
ChoiceInputs == {DigitText[n + 1] : n \in 0 .. MaxApps + 1} \cup {"x"}

\* int(text), for the texts above: the test stands for the ValueError
IsIntText(t) == \E n \in 0 .. 9 : DigitText[n + 1] = t
IntOf(t) == CHOOSE n \in 0 .. 9 : DigitText[n + 1] = t

\* Numbers typed at the "number of units booked" prompt (int() accepts a sign)
Counts == (0 - 1) .. MaxCount

Applicants == {u \in DOMAIN all_users : all_users[u].cls = "Applicant"}
Officers == {u \in DOMAIN all_users : all_users[u].cls = "HDBOfficer"}
Managers == {u \in DOMAIN all_users : all_users[u].cls = "HDBManager"}
\* HDBOfficer inherits from Applicant
Appliers == Applicants \cup Officers
ProjectIds == DOMAIN projects
AppIds == DOMAIN applications

\* The BTOProject objects in the order of their creation (the k-th object
\* created is ProjectIdOf[k]; its projectID is a field)
ProjectIdOf == <<"p1", "p2", "p3", "p4", "p5">>

Msg(op, msg) == [op |-> op, msg |-> msg]

\* A date is <<year, month, day>>; None in a date field is the empty tuple
NoDate == <<>>

\* The text of a date cell, "YYYY-MM-DD", is the tuple of its three numbers;
\* a text of another shape is a tuple of another length.
IsLeap(y) == (y % 4 = 0 /\ y % 100 # 0) \/ y % 400 = 0
DaysInMonth(y, m) ==
    IF m = 2 THEN (IF IsLeap(y) THEN 29 ELSE 28)
    ELSE IF m \in {4, 6, 9, 11} THEN 30 ELSE 31

\* parse_date: the date, or None for a text strptime does not accept
parse_date(date_str) ==
    IF /\ Len(date_str) = 3
       /\ date_str[1] \in 1 .. 9999
       /\ date_str[2] \in 1 .. 12
       /\ date_str[3] \in 1 .. DaysInMonth(date_str[1], date_str[2])
    THEN date_str
    ELSE NoDate

\* a <= b on dates
DateLE(a, b) ==
    \/ a[1] < b[1]
    \/ a[1] = b[1] /\ a[2] < b[2]
    \/ a[1] = b[1] /\ a[2] = b[2] /\ a[3] <= b[3]

\* Every variable but `last`
state == <<all_users, projects, applications, user_applications,
           handling_project, registration_status, registered_project,
           project_counter, controller_projects, in_flight>>

-----------------------------------------------------------------------------
(* Application *)

\* Application.__init__
NewApplication(applicant, project, chosen_flat_type) ==
    [applicant |-> applicant, BTOProject |-> project,
     applicationStatus |-> "Pending", chosen_flat_type |-> chosen_flat_type,
     requested_withdrawal |-> FALSE]

\* Application.updateStatus
updateStatus(apps, i, new_status) ==
    [apps EXCEPT ![i].applicationStatus = new_status]

-----------------------------------------------------------------------------
(* BTOProject *)

\* BTOProject.__init__: no officers, visible; a date is NoDate or <<y, m, d>>;
\* projectID is the value of BTOProject.project_counter at the call
BTOProject(projectID, project_name, neighborhood, flatTypes, open_date, close_date, manager, officerSlot) ==
    [projectID |-> projectID, projectName |-> project_name,
     neighborhood |-> neighborhood, flatTypes |-> flatTypes,
     applicationOpenDate |-> open_date, applicationCloseDate |-> close_date,
     manager |-> manager, officers |-> <<>>,
     visibility |-> TRUE, officerSlot |-> officerSlot]

\* BTOProject.reduceUnits, as a function of the flatTypes dictionary
\* (flat type -> units; the price is never read by an operation)
reduceUnits_NoClamp(flatTypes, flat_type, num) ==
    IF flat_type \in DOMAIN flatTypes
    THEN [flatTypes EXCEPT ![flat_type] = @ - num]
    ELSE flatTypes

reduceUnits(flatTypes, flat_type, num) ==
    IF flat_type \in DOMAIN flatTypes
    THEN [flatTypes EXCEPT ![flat_type] = IF @ - num < 0 THEN 0 ELSE @ - num]
    ELSE flatTypes

\* BTOProject.toggleVisibility: sets the flag, for any caller, and prints
\* nothing (no code of main() calls it; HDBManager.toggleProjectVisibility
\* writes the flag itself)
toggleVisibility(project, isVisible) ==
    /\ projects' = [projects EXCEPT ![project].visibility = isVisible]
    /\ last' = Msg("toggleVisibility", None)
    /\ UNCHANGED <<project_counter, controller_projects, in_flight, all_users,
                   applications, user_applications,
                   handling_project, registration_status, registered_project>>

\* What BTOProject.registerHDBOfficer prints: nothing when it appends
registerHDBOfficer_msg(project) ==
    IF Len(projects[project].officers) < projects[project].officerSlot
    THEN None
    ELSE "NoSlotsLeft"

\* BTOProject.registerHDBOfficer: appends the officer while there are fewer
\* officers than slots, without a look at the officer's registration and
\* without a write to the officer (no code of main() calls it)
registerHDBOfficer(project, officer) ==
    IF registerHDBOfficer_msg(project) = "NoSlotsLeft"
    THEN UNCHANGED vars
    ELSE /\ projects' = [projects EXCEPT ![project].officers = Append(@, officer)]
         /\ last' = Msg("registerHDBOfficer", None)
         /\ UNCHANGED <<project_counter, controller_projects, in_flight, all_users,
                        applications, user_applications,
                        handling_project, registration_status, registered_project>>

-----------------------------------------------------------------------------
(* Applicant *)

\* src/main.py:44-45, the list active_app of applyForProject
active_app_PendingOnly(user) ==
    SelectSeq(user_applications[user],
              LAMBDA i : applications[i].applicationStatus \in {"Pending"})

active_app_AnyStatus(user) == user_applications[user]

active_app(user) ==
    SelectSeq(user_applications[user],
              LAMBDA i : applications[i].applicationStatus \in {"Pending", "Successful"})

\* src/main.py:50-63, the age / marital status / flat type checks of
\* applyForProject: "ok" when they let the request through, otherwise the
\* message printed
eligibility_check_Age36(user, flat_type) ==
    IF Lower(all_users[user].marital_status) = Str_single
    THEN IF all_users[user].age <= 35 THEN "SingleUnder35"
         ELSE IF flat_type # "2-Room" THEN "SingleOnly2Room"
         ELSE "ok"
    ELSE IF all_users[user].age < 21 THEN "MarriedUnder21"
         ELSE IF flat_type \notin {"2-Room", "3-Room"} THEN "MarriedOnly2Or3Room"
         ELSE "ok"

eligibility_check(user, flat_type) ==
    IF Lower(all_users[user].marital_status) = Str_single
    THEN IF all_users[user].age < 35 THEN "SingleUnder35"
         ELSE IF flat_type # "2-Room" THEN "SingleOnly2Room"
         ELSE "ok"
    ELSE IF all_users[user].age < 21 THEN "MarriedUnder21"
         ELSE IF flat_type \notin {"2-Room", "3-Room"} THEN "MarriedOnly2Or3Room"
         ELSE "ok"

\* src/main.py:65, the unit check of applyForProject (the flat type is a key
\* of the project's dictionary when this is evaluated)
no_units_NegativeOnly(project, flat_type) ==
    projects[project].flatTypes[flat_type] < 0

no_units(project, flat_type) ==
    projects[project].flatTypes[flat_type] <= 0

\* What applyForProject prints, its checks taken in the order of the code;
\* "KeyError" is the exception raised by project.flatTypes[flat_type] at
\* line 65 for a flat type the project does not have.
applyForProject_msg(user, project, flat_type) ==
    IF active_app(user) # <<>> THEN "ActiveExists"
    ELSE IF eligibility_check(user, flat_type) # "ok"
         THEN eligibility_check(user, flat_type)
    ELSE IF flat_type \notin DOMAIN projects[project].flatTypes THEN "KeyError"
    ELSE IF no_units(project, flat_type) THEN "NoUnits"
    ELSE "Submitted"

\* Applicant.applyForProject (inherited by HDBOfficer), with
\* ApplicationController.createApplication
applyForProject(user, project, flat_type) ==
    LET msg == applyForProject_msg(user, project, flat_type) IN
    /\ msg = "Submitted" => Len(applications) < MaxApps
    /\ IF msg = "Submitted"
       THEN /\ last' = Msg("applyForProject", msg)
            /\ applications' = Append(applications,
                                      NewApplication(user, project, flat_type))
            /\ user_applications' =
                 [user_applications EXCEPT
                    ![user] = Append(@, Len(applications) + 1)]
       ELSE UNCHANGED <<applications, user_applications, last>>
    /\ UNCHANGED <<project_counter, controller_projects, in_flight, all_users, projects, handling_project,
                   registration_status, registered_project>>

\* src/main.py:101, the status check of requestWithdrawal
cannot_withdraw_Never(i) == FALSE

cannot_withdraw_BookedOnly(i) == applications[i].applicationStatus = "Booked"

cannot_withdraw(i) ==
    applications[i].applicationStatus \in {"Unsuccessful", "Booked"}

\* What requestWithdrawal prints for the text typed at its prompt
requestWithdrawal_msg(user, choice) ==
    IF user_applications[user] = <<>> THEN "NoApplications"
    ELSE IF ~IsIntText(choice) THEN "InvalidInput"
    ELSE IF ~(0 <= IntOf(choice) - 1
              /\ IntOf(choice) - 1 < Len(user_applications[user]))
         THEN "InvalidChoice"
    ELSE IF cannot_withdraw(user_applications[user][IntOf(choice)])
         THEN "CannotWithdraw"
    ELSE "WithdrawalRequested"

\* Applicant.requestWithdrawal
requestWithdrawal(user, choice) ==
    LET msg == requestWithdrawal_msg(user, choice) IN
    /\ IF msg = "WithdrawalRequested"
       THEN /\ last' = Msg("requestWithdrawal", msg)
            /\ applications' =
                 [applications EXCEPT
                    ![user_applications[user][IntOf(choice)]].requested_withdrawal
                       = TRUE]
       ELSE UNCHANGED <<applications, last>>
    /\ UNCHANGED <<project_counter, controller_projects, in_flight, all_users, projects, user_applications, handling_project,
                   registration_status, registered_project>>

\* src/main.py:154-160, the two early returns of Applicant.viewProjects
view_blocked(user) ==
    \/ (Lower(all_users[user].marital_status) = Str_single
          /\ all_users[user].age < 35)
    \/ (Lower(all_users[user].marital_status) # Str_single
          /\ all_users[user].age < 21)

\* src/main.py:162-165, the flat types viewProjects looks for
can_apply_types_Both(user) == <<"2-Room", "3-Room">>

can_apply_types(user) ==
    IF Lower(all_users[user].marital_status) = Str_single
    THEN <<"2-Room">>
    ELSE <<"2-Room", "3-Room">>

\* src/main.py:171-175, the loop over can_apply_types for one project
has_available_type(project, types) ==
    \E k \in DOMAIN types :
        /\ types[k] \in DOMAIN projects[project].flatTypes
        /\ projects[project].flatTypes[types[k]] > 0

\* The projects Applicant.viewProjects lists, in the order of the
\* controller's list it is given
viewProjects_out(user) ==
    IF view_blocked(user) THEN <<>>
    ELSE SelectSeq(controller_projects,
                   LAMBDA p : /\ projects[p].visibility
                              /\ has_available_type(p, can_apply_types(user)))

\* What viewProjects prints first
viewProjects_msg(user) ==
    IF view_blocked(user) THEN "NoProjectsEligible"
    ELSE IF viewProjects_out(user) = <<>> THEN "NoProjectsAvailable"
    ELSE "EligibleProjects"

\* Applicant.viewProjects (inherited by HDBOfficer) on the controller's
\* list: prints, writes nothing
viewProjects(user) ==
    /\ last' = [op |-> "viewProjects", msg |-> viewProjects_msg(user),
                out |-> viewProjects_out(user), user |-> user]
    /\ UNCHANGED state

-----------------------------------------------------------------------------
(* HDBOfficer *)

\* src/main.py:217-220, the loop of registerToProject over the officer's own
\* applications
applied_for_ActiveOnly(officer, project) ==
    \E k \in DOMAIN user_applications[officer] :
        /\ applications[user_applications[officer][k]].BTOProject = project
        /\ applications[user_applications[officer][k]].applicationStatus
             \in {"Pending", "Successful"}

applied_for(officer, project) ==
    \E k \in DOMAIN user_applications[officer] :
        applications[user_applications[officer][k]].BTOProject = project

\* src/main.py:213, the handling check of registerToProject
already_handling_Never(officer) == FALSE

already_handling_RegisteredOnly(officer) ==
    handling_project[officer] # None /\ registered_project[officer] # None

already_handling(officer) == handling_project[officer] # None

\* What registerToProject prints
registerToProject_msg(officer, project) ==
    IF already_handling(officer) THEN "AlreadyHandling"
    ELSE IF applied_for(officer, project) THEN "AlreadyApplied"
    ELSE "RegistrationSubmitted"

\* HDBOfficer.registerToProject
registerToProject(officer, project) ==
    LET msg == registerToProject_msg(officer, project) IN
    /\ IF msg = "RegistrationSubmitted"
       THEN /\ last' = Msg("registerToProject", msg)
            /\ registered_project' = [registered_project EXCEPT ![officer] = project]
            /\ registration_status' = [registration_status EXCEPT ![officer] = "Pending"]
       ELSE UNCHANGED <<registered_project, registration_status, last>>
    /\ UNCHANGED <<project_counter, controller_projects, in_flight, all_users, projects, applications, user_applications,
                   handling_project>>

\* HDBOfficer.updateFlatAvailability, with BTOProject.reduceUnits. This is
\* the operation behind "10. Update Flat Availability", the only place where
\* the program records that units were booked.
not_handling_Never(officer, project) == FALSE

not_handling(officer, project) == handling_project[officer] # project

updateFlatAvailability(officer, project, flat_type, number_booked) ==
    IF not_handling(officer, project)
    THEN UNCHANGED vars
    ELSE /\ \A ft \in DOMAIN projects[project].flatTypes :
              reduceUnits(projects[project].flatTypes, flat_type, number_booked)[ft]
                <= MaxUnits
         /\ projects' = [projects EXCEPT ![project].flatTypes =
                           reduceUnits(@, flat_type, number_booked)]
         /\ last' = Msg("updateFlatAvailability", "Updated")
         /\ UNCHANGED <<project_counter, controller_projects, in_flight, all_users, applications, user_applications,
                        handling_project, registration_status, registered_project>>

-----------------------------------------------------------------------------
(* HDBManager *)

\* src/main.py:310, the status check of approveOrRejectApplication
not_pending_Never(i) == FALSE

not_pending_SuccessfulPasses(i) ==
    applications[i].applicationStatus \notin {"Pending", "Successful"}

not_pending(i) == applications[i].applicationStatus # "Pending"

\* src/main.py:316, the unit check of an approval
units_left_Always(i) == TRUE

units_left(i) ==
    projects[applications[i].BTOProject].flatTypes[applications[i].chosen_flat_type] > 0

\* What approveOrRejectApplication prints; "KeyError" is the exception raised
\* at line 316 when the project no longer has the chosen flat type.
approveOrRejectApplication_msg(manager, i, decision) ==
    IF projects[applications[i].BTOProject].manager # manager THEN "NotManager"
    ELSE IF not_pending(i) THEN "NotPending"
    ELSE IF decision
         THEN IF applications[i].chosen_flat_type
                   \notin DOMAIN projects[applications[i].BTOProject].flatTypes
              THEN "KeyError"
              ELSE IF units_left(i) THEN "Approved" ELSE "NotEnoughUnits"
    ELSE "Rejected"

\* HDBManager.approveOrRejectApplication
approveOrRejectApplication(manager, i, decision) ==
    LET msg == approveOrRejectApplication_msg(manager, i, decision) IN
    /\ CASE msg = "Approved" ->
              /\ applications' = updateStatus(applications, i, "Successful")
              /\ last' = Msg("approveOrRejectApplication", msg)
         [] msg = "Rejected" ->
              /\ applications' = updateStatus(applications, i, "Unsuccessful")
              /\ last' = Msg("approveOrRejectApplication", msg)
         [] OTHER -> UNCHANGED <<applications, last>>
    /\ UNCHANGED <<project_counter, controller_projects, in_flight, all_users, projects, user_applications, handling_project,
                   registration_status, registered_project>>

\* src/main.py:333-342, what a decision on a requested withdrawal does to the
\* application object
withdrawal_effect_KeepFlag(app, decision) ==
    IF decision
    THEN IF app.applicationStatus \in {"Pending", "Successful"}
         THEN [app EXCEPT !.applicationStatus = "Unsuccessful"]
         ELSE app
    ELSE [app EXCEPT !.requested_withdrawal = FALSE]

withdrawal_effect(app, decision) ==
    IF decision
    THEN IF app.applicationStatus \in {"Pending", "Successful"}
         THEN [app EXCEPT !.applicationStatus = "Unsuccessful",
                          !.requested_withdrawal = FALSE]
         ELSE app
    ELSE [app EXCEPT !.requested_withdrawal = FALSE]

\* What approveOrRejectWithdrawal prints
approveOrRejectWithdrawal_msg(manager, i, decision) ==
    IF projects[applications[i].BTOProject].manager # manager THEN "NotManager"
    ELSE IF ~applications[i].requested_withdrawal THEN "NoWithdrawalRequested"
    ELSE IF decision
         THEN IF applications[i].applicationStatus \in {"Pending", "Successful"}
              THEN "WithdrawalApproved"
              ELSE "CannotBeWithdrawn"
    ELSE "WithdrawalRejected"

\* HDBManager.approveOrRejectWithdrawal
approveOrRejectWithdrawal(manager, i, decision) ==
    LET msg == approveOrRejectWithdrawal_msg(manager, i, decision) IN
    /\ IF msg \in {"NotManager", "NoWithdrawalRequested"}
       THEN UNCHANGED <<applications, last>>
       ELSE /\ applications' =
                 [applications EXCEPT ![i] = withdrawal_effect(@, decision)]
            /\ last' = IF msg = "CannotBeWithdrawn" THEN last
                       ELSE Msg("approveOrRejectWithdrawal", msg)
    /\ UNCHANGED <<project_counter, controller_projects, in_flight, all_users, projects, user_applications, handling_project,
                   registration_status, registered_project>>

\* src/main.py:352, the status check of approveOrRejectHDBOfficerRegistration
registration_not_pending_Never(officer) == FALSE

registration_not_pending(officer) == registration_status[officer] # "Pending"

\* src/main.py:357, the slot check of an approval
no_slots_OffByOne(project) ==
    Len(projects[project].officers) > projects[project].officerSlot

no_slots(project) ==
    Len(projects[project].officers) >= projects[project].officerSlot

\* What approveOrRejectHDBOfficerRegistration prints
approveOrRejectHDBOfficerRegistration_msg(manager, officer, decision) ==
    IF registered_project[officer] = None THEN "NoRegistration"
    ELSE IF projects[registered_project[officer]].manager # manager THEN "NotManager"
    ELSE IF registration_not_pending(officer) THEN "RegistrationNotPending"
    ELSE IF decision
         THEN IF no_slots(registered_project[officer])
              THEN "NoSlots"
              ELSE "OfficerApproved"
    ELSE "OfficerRejected"

\* HDBManager.approveOrRejectHDBOfficerRegistration
approveOrRejectHDBOfficerRegistration(manager, officer, decision) ==
    LET msg == approveOrRejectHDBOfficerRegistration_msg(manager, officer, decision)
        project == registered_project[officer]
    IN
    /\ CASE msg = "OfficerApproved" ->
              /\ last' = Msg("approveOrRejectHDBOfficerRegistration", msg)
              /\ projects' = [projects EXCEPT ![project].officers = Append(@, officer)]
              /\ handling_project' = [handling_project EXCEPT ![officer] = project]
              /\ registration_status' =
                   [registration_status EXCEPT ![officer] = "Approved"]
         [] msg = "OfficerRejected" ->
              /\ last' = Msg("approveOrRejectHDBOfficerRegistration", msg)
              /\ registration_status' =
                   [registration_status EXCEPT ![officer] = "Rejected"]
              /\ UNCHANGED <<projects, handling_project>>
         [] OTHER ->
              UNCHANGED <<projects, handling_project, registration_status, last>>
    /\ UNCHANGED <<project_counter, controller_projects, in_flight, all_users, applications, user_applications, registered_project>>

\* ProjectController.findProjectByID: the first project of the controller's
\* list with that id, or None
findProjectByID(pid) ==
    LET hits == SelectSeq(controller_projects,
                          LAMBDA p : projects[p].projectID = pid)
    IN  IF hits = <<>> THEN None ELSE hits[1]

\* src/main.py:383, what the constructor does to the class counter
next_counter_NoIncrement(counter) == counter

next_counter(counter) == counter + 1

\* Texts typed at the prompts of "2. Create BTO Project" that int() is applied
\* to, and at the name prompts of create and edit
NumberInputs == {"0", "1", "x"}
NameInputs == {"", "Cedar"}

\* main(), manager menu choice 2 (src/main.py:849-876): int() of the five
\* numeric texts (ValueError: "Invalid numeric input.", nothing created),
\* parse_date of the two dates, HDBManager.createBTOProject,
\* ProjectController.addProject. The prices are parsed and stored but read by
\* no operation; the manager's projects_handling list is appended to and read
\* by no operation.
main_createProject(manager, pname, nbhd, t1_units, t1_price, t2_units, t2_price, open_d, close_d, slot) ==
    IF \E t \in {t1_units, t1_price, t2_units, t2_price, slot} : ~IsIntText(t)
    THEN UNCHANGED vars
    ELSE /\ Len(controller_projects) < MaxProjects
         /\ LET new_p == ProjectIdOf[Cardinality(DOMAIN projects) + 1] IN
            /\ projects' =
                 projects @@
                   (new_p :> BTOProject(project_counter, pname, nbhd,
                                        ("2-Room" :> IntOf(t1_units))
                                          @@ ("3-Room" :> IntOf(t2_units)),
                                        parse_date(open_d), parse_date(close_d),
                                        manager, IntOf(slot)))
            /\ controller_projects' = Append(controller_projects, new_p)
         /\ project_counter' = next_counter(project_counter)
         /\ last' = Msg("createBTOProject", "Created")
         /\ UNCHANGED <<in_flight, all_users, applications, user_applications,
                        handling_project, registration_status, registered_project>>

\* None (or an empty dictionary) passed for new_flat_types
NoFlatTypes == <<>>

\* HDBManager.editBTOProject: an argument that is None or empty is skipped
editBTOProject(manager, project, new_name, new_neighborhood, new_flat_types) ==
    IF projects[project].manager # manager
    THEN UNCHANGED vars
    ELSE /\ projects' =
              [projects EXCEPT
                 ![project].projectName =
                     IF new_name \notin {None, ""} THEN new_name ELSE @,
                 ![project].neighborhood =
                     IF new_neighborhood \notin {None, ""} THEN new_neighborhood ELSE @,
                 ![project].flatTypes =
                     IF new_flat_types # NoFlatTypes THEN new_flat_types ELSE @]
         /\ last' = Msg("editBTOProject", "Updated")
         /\ UNCHANGED <<project_counter, controller_projects, in_flight, all_users,
                        applications, user_applications,
                        handling_project, registration_status, registered_project>>

\* Texts typed at a "Project ID" prompt
PidInputs == {DigitText[n + 1] : n \in 0 .. MaxProjects + 1} \cup {"x"}

\* main(), manager menu choice 3 (src/main.py:878-893): the flat types are
\* never passed
main_editProject(manager, pid, new_name, new_nbhd) ==
    IF ~IsIntText(pid) \/ findProjectByID(IntOf(pid)) = None
    THEN UNCHANGED vars
    ELSE editBTOProject(manager, findProjectByID(IntOf(pid)),
                        IF new_name # "" THEN new_name ELSE None,
                        IF new_nbhd # "" THEN new_nbhd ELSE None,
                        NoFlatTypes)

\* HDBManager.toggleProjectVisibility
toggleProjectVisibility(manager, project, isVisible) ==
    IF projects[project].manager # manager
    THEN UNCHANGED vars
    ELSE /\ projects' = [projects EXCEPT ![project].visibility = isVisible]
         /\ last' = Msg("toggleProjectVisibility", "VisibilitySet")
         /\ UNCHANGED <<project_counter, controller_projects, in_flight, all_users, applications, user_applications,
                        handling_project, registration_status, registered_project>>

-----------------------------------------------------------------------------
(* Interleaved callers: an operation taken in two steps, its checks and then
   its writes, with the steps of other callers in between. in_flight holds
   the calls whose checks have passed and whose writes are still to come. *)

Call(op, actor, target, arg) ==
    [op |-> op, actor |-> actor, target |-> target, arg |-> arg]

Remove(seq, k) == SubSeq(seq, 1, k - 1) \o SubSeq(seq, k + 1, Len(seq))

\* Applicant.applyForProject, src/main.py:44-67: the checks pass
applyForProject_check(user, project, flat_type) ==
    /\ applyForProject_msg(user, project, flat_type) = "Submitted"
    /\ Len(in_flight) < MaxInFlight
    /\ in_flight' = Append(in_flight,
                           Call("applyForProject", user, project, flat_type))
    /\ UNCHANGED <<all_users, projects, applications, user_applications,
                   handling_project, registration_status, registered_project,
                   project_counter, controller_projects, last>>

\* Applicant.applyForProject, src/main.py:69-72: the application is created
\* and appended to both lists
applyForProject_act(k) ==
    /\ in_flight[k].op = "applyForProject"
    /\ Len(applications) < MaxApps
    /\ applications' =
         Append(applications,
                NewApplication(in_flight[k].actor, in_flight[k].target,
                               in_flight[k].arg))
    /\ user_applications' =
         [user_applications EXCEPT
            ![in_flight[k].actor] = Append(@, Len(applications) + 1)]
    /\ last' = Msg("applyForProject", "Submitted")
    /\ in_flight' = Remove(in_flight, k)
    /\ UNCHANGED <<all_users, projects, handling_project, registration_status,
                   registered_project, project_counter, controller_projects>>

\* HDBManager.approveOrRejectHDBOfficerRegistration with decision True,
\* src/main.py:345-359: the checks pass; the project is read at line 348
approveOfficer_check(manager, officer) ==
    /\ approveOrRejectHDBOfficerRegistration_msg(manager, officer, TRUE)
         = "OfficerApproved"
    /\ Len(in_flight) < MaxInFlight
    /\ in_flight' = Append(in_flight,
                           Call("approveOrRejectHDBOfficerRegistration", manager,
                                officer, registered_project[officer]))
    /\ UNCHANGED <<all_users, projects, applications, user_applications,
                   handling_project, registration_status, registered_project,
                   project_counter, controller_projects, last>>

\* HDBManager.approveOrRejectHDBOfficerRegistration, src/main.py:360-363:
\* the officer is appended and marked
approveOfficer_act(k) ==
    /\ in_flight[k].op = "approveOrRejectHDBOfficerRegistration"
    /\ projects' = [projects EXCEPT
                      ![in_flight[k].arg].officers = Append(@, in_flight[k].target)]
    /\ handling_project' =
         [handling_project EXCEPT ![in_flight[k].target] = in_flight[k].arg]
    /\ registration_status' =
         [registration_status EXCEPT ![in_flight[k].target] = "Approved"]
    /\ last' = Msg("approveOrRejectHDBOfficerRegistration", "OfficerApproved")
    /\ in_flight' = Remove(in_flight, k)
    /\ UNCHANGED <<all_users, applications, user_applications,
                   registered_project, project_counter, controller_projects>>

-----------------------------------------------------------------------------
(* The manager's queues *)

\* main(), manager menu choice 5 (src/main.py:910-912): the applications
\* listed for a decision, in the order of the controller's list
pending_apps_AnyManager(manager) ==
    SelectSeq([i \in DOMAIN applications |-> i],
              LAMBDA i : applications[i].applicationStatus = "Pending")

pending_apps(manager) ==
    SelectSeq([i \in DOMAIN applications |-> i],
              LAMBDA i : /\ applications[i].applicationStatus = "Pending"
                         /\ projects[applications[i].BTOProject].manager = manager)

\* main(), manager menu choice 6 (src/main.py:935-937)
w_apps(manager) ==
    SelectSeq([i \in DOMAIN applications |-> i],
              LAMBDA i : /\ applications[i].requested_withdrawal
                         /\ projects[applications[i].BTOProject].manager = manager)

\* The officers in the order of OfficerList.csv
officers_list == SelectSeq(<<"o1", "o2">>, LAMBDA o : o \in Officers)

\* main(), manager menu choice 7 (src/main.py:958-962)
pending_officers(manager) ==
    SelectSeq(officers_list,
              LAMBDA off : /\ registered_project[off] # None
                           /\ projects[registered_project[off]].manager = manager
                           /\ registration_status[off] = "Pending")

\* Texts typed at "Approve or Reject? (1 for Approve, 0 for Reject)"
DecisionInputs == {"1", "0", "y"}

\* src/main.py:923-930, 946-953 and 971-978: the typed choice is a number
\* that selects an entry of the queue (else "Invalid choice." or "Invalid
\* input."), and the entry it selects
valid_index(queue, c) ==
    IsIntText(c) /\ IntOf(c) - 1 \in 0 .. Len(queue) - 1

selected(queue, c) == queue[(IntOf(c) - 1) + 1]

\* main(), manager menu choice 5: decide on an application of the queue
main_decideApplication(manager, c, d) ==
    IF ~valid_index(pending_apps(manager), c)
    THEN UNCHANGED vars
    ELSE approveOrRejectApplication(manager, selected(pending_apps(manager), c),
                                    d = "1")

\* main(), manager menu choice 6: decide on a withdrawal request of the queue
main_decideWithdrawal(manager, c, d) ==
    IF ~valid_index(w_apps(manager), c)
    THEN UNCHANGED vars
    ELSE approveOrRejectWithdrawal(manager, selected(w_apps(manager), c), d = "1")

\* main(), manager menu choice 7: decide on an officer registration of the
\* queue
main_decideOfficer(manager, c, d) ==
    IF ~valid_index(pending_officers(manager), c)
    THEN UNCHANGED vars
    ELSE approveOrRejectHDBOfficerRegistration(
             manager, selected(pending_officers(manager), c), d = "1")

-----------------------------------------------------------------------------
(* The receipt and the report *)

\* src/main.py:263 and 371, the status test of generateReceipt and of
\* generateApplicantReport
is_booked_OrSuccessful(app) == app.applicationStatus \in {"Booked", "Successful"}

is_booked(app) == app.applicationStatus = "Booked"

\* The applications HDBOfficer.generateReceipt prints a receipt for: the
\* first Booked one of the applicant's list, or none
generateReceipt_out(applicant) ==
    LET booked == SelectSeq(user_applications[applicant],
                            LAMBDA i : is_booked(applications[i]))
    IN  IF booked = <<>> THEN <<>> ELSE <<booked[1]>>

\* What generateReceipt prints
generateReceipt_msg(applicant) ==
    IF generateReceipt_out(applicant) = <<>> THEN "NoBooked" ELSE "Receipt"

\* HDBOfficer.generateReceipt: prints, writes nothing
generateReceipt(officer, applicant) ==
    /\ last' = [op |-> "generateReceipt", msg |-> generateReceipt_msg(applicant),
                out |-> generateReceipt_out(applicant)]
    /\ UNCHANGED state

\* The applications HDBManager.generateApplicantReport lists, in the order of
\* the list it is given
generateApplicantReport_out(apps) ==
    SelectSeq([i \in DOMAIN apps |-> i], LAMBDA i : is_booked(apps[i]))

\* HDBManager.generateApplicantReport on the controller's list: prints,
\* writes nothing
generateApplicantReport(manager) ==
    /\ last' = [op |-> "generateApplicantReport", msg |-> "Report",
                out |-> generateApplicantReport_out(applications)]
    /\ UNCHANGED state

-----------------------------------------------------------------------------
(* The menus of main() around applyForProject *)

\* Texts typed at "Enter flat type (2 or 3)"
FlatInputs == {"2", "3", "4"}

\* convert_flat_input
convert_flat_input(user_input) ==
    IF user_input = "2" THEN "2-Room"
    ELSE IF user_input = "3" THEN "3-Room"
    ELSE None

\* src/main.py:672-676 and 738-742, the application period check: made only
\* when the project has both dates
outside_period(project, today) ==
    /\ projects[project].applicationOpenDate # NoDate
    /\ projects[project].applicationCloseDate # NoDate
    /\ ~(/\ DateLE(projects[project].applicationOpenDate, today)
         /\ DateLE(today, projects[project].applicationCloseDate))

\* What choice 2 (apply) of the applicant menu and of the officer menu prints
\* for the project id and the flat type typed on the day `today`; only the
\* applicant menu looks at the project's visibility.
main_apply_msg(user, pid, today, ft_input) ==
    IF ~IsIntText(pid) THEN "InvalidProjectID"
    ELSE IF findProjectByID(IntOf(pid)) = None THEN "ProjectNotFound"
    ELSE LET project == findProjectByID(IntOf(pid)) IN
         IF all_users[user].cls = "Applicant" /\ ~projects[project].visibility
         THEN "NotVisible"
         ELSE IF outside_period(project, today) THEN "NotWithinPeriod"
         ELSE IF convert_flat_input(ft_input) = None THEN "InvalidFlatType"
         ELSE applyForProject_msg(user, project, convert_flat_input(ft_input))

\* main(), choice 2 of the applicant menu (src/main.py:660-682) and of the
\* officer menu (src/main.py:729-748)
main_apply(user, pid, today, ft_input) ==
    IF main_apply_msg(user, pid, today, ft_input)
         \in {"InvalidProjectID", "ProjectNotFound", "NotVisible",
              "NotWithinPeriod", "InvalidFlatType"}
    THEN UNCHANGED vars
    ELSE applyForProject(user, findProjectByID(IntOf(pid)),
                         convert_flat_input(ft_input))

-----------------------------------------------------------------------------
(* Construction: main() loads the users and the projects, the controllers
   start empty *)

\* User.__init__ (the fields an operation reads)
User(cls, age, marital_status) ==
    [cls |-> cls, age |-> age, marital_status |-> marital_status]

\* The state main() builds from loaded users and projects (given with the
\* ids 1, 2, ... of their creation order): every Applicant and HDBOfficer
\* starts with no application, every HDBOfficer with no registration,
\* ApplicationController with an empty list, ProjectController with the
\* projects in creation order, and no call is under way.
Loaded(users, projs) ==
    /\ all_users = users
    /\ projects = projs
    /\ applications = <<>>
    /\ user_applications =
         [u \in {x \in DOMAIN users : users[x].cls \in {"Applicant", "HDBOfficer"}}
            |-> <<>>]
    /\ handling_project =
         [u \in {x \in DOMAIN users : users[x].cls = "HDBOfficer"} |-> None]
    /\ registration_status =
         [u \in {x \in DOMAIN users : users[x].cls = "HDBOfficer"} |-> None]
    /\ registered_project =
         [u \in {x \in DOMAIN users : users[x].cls = "HDBOfficer"} |-> None]
    /\ project_counter = Cardinality(DOMAIN projs) + 1
    /\ controller_projects =
         [k \in 1 .. Cardinality(DOMAIN projs) |->
            CHOOSE p \in DOMAIN projs : projs[p].projectID = k]
    /\ in_flight = <<>>
    /\ last = Msg("main", "Loaded")

\* A row of ProjectList.csv (the columns an operation depends on); the
\* Officer column is the sequence of the names between its commas.
Row(pname, neighborhood, t1, t1_units, t2, t2_units, open_str, close_str, manager_str, slot, off_names) ==
    [pname |-> pname, neighborhood |-> neighborhood, t1 |-> t1, t1_units |-> t1_units, t2 |-> t2, t2_units |-> t2_units,
     open |-> open_str, close |-> close_str, manager |-> manager_str,
     slot |-> slot, officers |-> off_names]

\* src/main.py:570-573, the dictionary literal {t1: ..., t2: ...}: with twice
\* the same label the second entry stands
ft_dict(row) == (row.t2 :> row.t2_units) @@ (row.t1 :> row.t1_units)

\* load_projects, one row: the project it builds when the class counter is
\* `counter`. The officers named in the row are appended to the project's
\* list without a look at the slot count.
load_project(users, row, counter) ==
    [BTOProject(counter, row.pname, row.neighborhood,
                ft_dict(row), parse_date(row.open), parse_date(row.close),
                IF row.manager \in DOMAIN users
                   /\ users[row.manager].cls = "HDBManager"
                THEN row.manager ELSE None,
                row.slot)
       EXCEPT !.officers =
                SelectSeq(row.officers,
                          LAMBDA o : o \in DOMAIN users
                                     /\ users[o].cls = "HDBOfficer")]

\* The rows that name the officer
RowsNaming(rows, o) ==
    {k \in DOMAIN rows : \E j \in DOMAIN rows[k].officers : rows[k].officers[j] = o}

\* The state main() builds from loaded users and the rows of the project
\* file: the counter is 1 when the first row is read and every row makes one
\* constructor call, so the k-th row gets projectID k; main() adds the
\* projects to the controller in that order; load_projects sets handling_project and registration_status of
\* every officer a row names (the last row wins) and leaves
\* registered_project as the constructor set it.
LoadedFrom(users, rows) ==
    /\ all_users = users
    /\ projects = [p \in {ProjectIdOf[k] : k \in DOMAIN rows} |->
                     LET k == CHOOSE j \in DOMAIN rows : ProjectIdOf[j] = p
                     IN  load_project(users, rows[k], k)]
    /\ applications = <<>>
    /\ user_applications =
         [u \in {x \in DOMAIN users : users[x].cls \in {"Applicant", "HDBOfficer"}}
            |-> <<>>]
    /\ handling_project =
         [u \in {x \in DOMAIN users : users[x].cls = "HDBOfficer"} |->
            IF RowsNaming(rows, u) = {} THEN None
            ELSE ProjectIdOf[CHOOSE k \in RowsNaming(rows, u) :
                               \A j \in RowsNaming(rows, u) : j <= k]]
    /\ registration_status =
         [u \in {x \in DOMAIN users : users[x].cls = "HDBOfficer"} |->
            IF RowsNaming(rows, u) = {} THEN None ELSE "Approved"]
    /\ registered_project =
         [u \in {x \in DOMAIN users : users[x].cls = "HDBOfficer"} |-> None]
    /\ project_counter = Len(rows) + 1
    /\ controller_projects = [k \in DOMAIN rows |-> ProjectIdOf[k]]
    /\ in_flight = <<>>
    /\ last = Msg("main", "Loaded")

\* One project "p1" of manager "m1" with one unit of each flat type, one
\* officer slot and no dates; a single applicant of 36, a married officer of 30 and a
\* second manager who owns no project.
Init ==
    Loaded(("a1" :> User("Applicant", 36, Str_Single))
             @@ ("o1" :> User("HDBOfficer", 30, Str_Married))
             @@ ("m1" :> User("HDBManager", 40, Str_Married))
             @@ ("m2" :> User("HDBManager", 45, Str_Single)),
           "p1" :> BTOProject(1, "Acacia", "Yishun", ("2-Room" :> 1) @@ ("3-Room" :> 1),
                             NoDate, NoDate, "m1", 1))

Next ==
    \/ \E u \in Appliers, p \in ProjectIds, ft \in FlatTypeArgs :
         applyForProject(u, p, ft)
    \/ \E u \in Appliers, c \in ChoiceInputs : requestWithdrawal(u, c)
    \/ \E o \in Officers, p \in ProjectIds : registerToProject(o, p)
    \/ \E o \in Officers, p \in ProjectIds, ft \in FlatTypeArgs, n \in Counts :
         updateFlatAvailability(o, p, ft, n)
    \/ \E m \in Managers, i \in AppIds, d \in BOOLEAN :
         approveOrRejectApplication(m, i, d)
    \/ \E m \in Managers, i \in AppIds, d \in BOOLEAN :
         approveOrRejectWithdrawal(m, i, d)
    \/ \E m \in Managers, o \in Officers, d \in BOOLEAN :
         approveOrRejectHDBOfficerRegistration(m, o, d)

Spec == Init /\ [][Next]_vars

\* The eligibility gate on its own: one applicant whose age and marital
\* status are drawn from the bounded sets, one project with units of both
\* flat types, and applyForProject called with every flat type label.
InitGate ==
    \E age \in MinAge .. MaxAge, marital_status \in MaritalInputs :
        Loaded(("a1" :> User("Applicant", age, marital_status))
                 @@ ("m1" :> User("HDBManager", 40, Str_Married)),
               "p1" :> BTOProject(1, "Acacia", "Yishun", ("2-Room" :> 1) @@ ("3-Room" :> 1),
                             NoDate, NoDate, "m1", 1))

NextGate ==
    \E u \in Appliers, p \in ProjectIds, ft \in FlatTypeArgs :
        applyForProject(u, p, ft)

SpecGate == InitGate /\ [][NextGate]_vars

\* Officer registration on its own: two officers and two projects of two
\* managers whose officer slots are drawn from 0 .. MaxSlot. The officers
\* register, the managers approve and reject.
InitOfficers ==
    \E slot1 \in 0 .. MaxSlot, slot2 \in 0 .. MaxSlot :
        Loaded(("o1" :> User("HDBOfficer", 30, Str_Married))
                 @@ ("o2" :> User("HDBOfficer", 30, Str_Single))
                 @@ ("m1" :> User("HDBManager", 40, Str_Married))
                 @@ ("m2" :> User("HDBManager", 45, Str_Single)),
               ("p1" :> BTOProject(1, "Acacia", "Yishun",
                                   ("2-Room" :> 1) @@ ("3-Room" :> 1),
                                   NoDate, NoDate, "m1", slot1))
                 @@ ("p2" :> BTOProject(2, "Birch", "Boon Lay",
                                        ("2-Room" :> 1) @@ ("3-Room" :> 1),
                                        NoDate, NoDate, "m2", slot2)))

NextOfficers ==
    \/ \E o \in Officers, p \in ProjectIds : registerToProject(o, p)
    \/ \E m \in Managers, o \in Officers, d \in BOOLEAN :
         approveOrRejectHDBOfficerRegistration(m, o, d)
    \/ \E p \in ProjectIds, o \in Officers : registerHDBOfficer(p, o)

SpecOfficers == InitOfficers /\ [][NextOfficers]_vars

\* The program started from a project file: one row whose two flat type
\* labels and whose Officer column are drawn from the sets below. A married
\* applicant and a married officer apply; the officers register; the manager
\* decides.
TypeLabelPairs == {<<"2-Room", "3-Room">>, <<"3-Room", "4-Room">>,
                   <<"2-Room", "2-Room">>}
OfficerColumns == {<<>>, <<"o1">>, <<"o1", "o2">>}

InitLoaded ==
    \E labels \in TypeLabelPairs, off_names \in OfficerColumns :
        LoadedFrom(("a1" :> User("Applicant", 30, Str_Married))
                     @@ ("o1" :> User("HDBOfficer", 30, Str_Married))
                     @@ ("o2" :> User("HDBOfficer", 30, Str_Single))
                     @@ ("m1" :> User("HDBManager", 40, Str_Married)),
                   <<Row("Acacia", "Yishun", labels[1], 1, labels[2], 1, <<>>, <<>>,
                         "m1", 1,
                         off_names)>>)

NextLoaded ==
    \/ \E u \in Appliers, p \in ProjectIds, ft \in FlatTypeArgs :
         applyForProject(u, p, ft)
    \/ \E m \in Managers, i \in AppIds, d \in BOOLEAN :
         approveOrRejectApplication(m, i, d)
    \/ \E o \in Officers, p \in ProjectIds : registerToProject(o, p)
    \/ \E m \in Managers, o \in Officers, d \in BOOLEAN :
         approveOrRejectHDBOfficerRegistration(m, o, d)

SpecLoaded == InitLoaded /\ [][NextLoaded]_vars

\* The application period: one project whose two date cells are drawn from
\* DateTexts (a missing date, two dates and a text that is no date); an
\* applicant and an officer apply through their menus on a day drawn from
\* Todays; the manager decides on applications and sets the visibility.
DateTexts == {<<>>, <<2025, 1, 1>>, <<2025, 12, 31>>, <<2025, 2, 30>>}
Todays == {<<2024, 6, 1>>, <<2025, 6, 1>>, <<2026, 6, 1>>}

InitWindow ==
    \E open_str \in DateTexts, close_str \in DateTexts :
        LoadedFrom(("a1" :> User("Applicant", 36, Str_Single))
                     @@ ("o1" :> User("HDBOfficer", 30, Str_Married))
                     @@ ("m1" :> User("HDBManager", 40, Str_Married)),
                   <<Row("Acacia", "Yishun", "2-Room", 1, "3-Room", 1,
                         open_str, close_str, "m1", 1,
                         <<>>)>>)

NextWindow ==
    \/ \E u \in Appliers, pid \in PidInputs, today \in Todays,
          ft_input \in FlatInputs :
         main_apply(u, pid, today, ft_input)
    \/ \E m \in Managers, i \in AppIds, d \in BOOLEAN :
         approveOrRejectApplication(m, i, d)
    \/ \E m \in Managers, p \in ProjectIds, isVisible \in BOOLEAN :
         toggleProjectVisibility(m, p, isVisible)
    \/ \E p \in ProjectIds, isVisible \in BOOLEAN : toggleVisibility(p, isVisible)

SpecWindow == InitWindow /\ [][NextWindow]_vars

\* The receipt and the report as functions of the application lists: the
\* controller's list is drawn from the lists of at most MaxApps applications
\* of two applicants in every status the operations test for, at most one of
\* an applicant's applications being Pending or Successful; every
\* applicant's own list holds that applicant's applications in order.
StatusValues == {"Pending", "Successful", "Unsuccessful", "Booked"}

ApplicationLists ==
    UNION {[1 .. n -> {updateStatus(<<NewApplication(a, "p1", "2-Room")>>, 1, st)[1] :
                         a \in {"a1", "a2"}, st \in StatusValues}]
             : n \in 0 .. MaxApps}

InitReport ==
    \E apps \in ApplicationLists :
        /\ \A a \in {"a1", "a2"} :
             Cardinality({i \in DOMAIN apps :
                            /\ apps[i].applicant = a
                            /\ apps[i].applicationStatus \in {"Pending", "Successful"}})
               <= 1
        /\ all_users = ("a1" :> User("Applicant", 36, Str_Single))
                         @@ ("a2" :> User("Applicant", 30, Str_Married))
                         @@ ("o1" :> User("HDBOfficer", 30, Str_Married))
                         @@ ("m1" :> User("HDBManager", 40, Str_Married))
        /\ projects = "p1" :> BTOProject(1, "Acacia", "Yishun",
                                         ("2-Room" :> 1) @@ ("3-Room" :> 1),
                                         NoDate, NoDate, "m1", 1)
        /\ applications = apps
        /\ user_applications =
             [u \in {"a1", "a2", "o1"} |->
                SelectSeq([i \in DOMAIN apps |-> i],
                          LAMBDA i : apps[i].applicant = u)]
        /\ handling_project = [u \in {"o1"} |-> None]
        /\ registration_status = [u \in {"o1"} |-> None]
        /\ registered_project = [u \in {"o1"} |-> None]
        /\ project_counter = 2
        /\ controller_projects = <<"p1">>
        /\ in_flight = <<>>
        /\ last = Msg("main", "Loaded")

NextReport ==
    \/ \E o \in Officers, a \in Applicants : generateReceipt(o, a)
    \/ \E m \in Managers : generateApplicantReport(m)

SpecReport == InitReport /\ [][NextReport]_vars

\* Authority: every guarded operation called by every manager and every
\* officer. Project "p1" belongs to "m1"; "m2" owns nothing; the applicant
\* applies and asks for withdrawal, the officer (single, under 35) registers
\* and records bookings, the managers decide, set the visibility and edit.
EditNames == {None, "Cedar"}
EditFlatTypes == {NoFlatTypes, ("2-Room" :> 1) @@ ("3-Room" :> 1)}

InitAuth ==
    Loaded(("a1" :> User("Applicant", 36, Str_Single))
             @@ ("o1" :> User("HDBOfficer", 30, Str_Single))
             @@ ("m1" :> User("HDBManager", 40, Str_Married))
             @@ ("m2" :> User("HDBManager", 45, Str_Single)),
           "p1" :> BTOProject(1, "Acacia", "Yishun", ("2-Room" :> 1) @@ ("3-Room" :> 1),
                             NoDate, NoDate, "m1", 1))

NextAuth ==
    \/ \E u \in Appliers, p \in ProjectIds, ft \in FlatTypeArgs :
         applyForProject(u, p, ft)
    \/ \E u \in Appliers, c \in ChoiceInputs : requestWithdrawal(u, c)
    \/ \E o \in Officers, p \in ProjectIds : registerToProject(o, p)
    \/ \E o \in Officers, p \in ProjectIds, ft \in FlatTypeArgs, n \in Counts :
         updateFlatAvailability(o, p, ft, n)
    \/ \E m \in Managers, i \in AppIds, d \in BOOLEAN :
         approveOrRejectApplication(m, i, d)
    \/ \E m \in Managers, i \in AppIds, d \in BOOLEAN :
         approveOrRejectWithdrawal(m, i, d)
    \/ \E m \in Managers, o \in Officers, d \in BOOLEAN :
         approveOrRejectHDBOfficerRegistration(m, o, d)
    \/ \E m \in Managers, p \in ProjectIds, isVisible \in BOOLEAN :
         toggleProjectVisibility(m, p, isVisible)
    \/ \E m \in Managers, p \in ProjectIds, new_name \in EditNames,
          new_flat_types \in EditFlatTypes :
         editBTOProject(m, p, new_name, None, new_flat_types)

SpecAuth == InitAuth /\ [][NextAuth]_vars

\* The project list: an applicant whose age and marital status are drawn, a
\* single officer of 35, and two projects; the flat type labels and the unit
\* counts of the first are drawn, the second has no 2-Room unit left. The
\* manager sets the visibility, the two persons view the list.
InitView ==
    \E age \in MinAge .. MaxAge, marital_status \in MaritalInputs,
       labels \in TypeLabelPairs, t1_units \in 0 .. MaxUnits,
       t2_units \in 0 .. MaxUnits :
        LoadedFrom(("a1" :> User("Applicant", age, marital_status))
                     @@ ("o1" :> User("HDBOfficer", 35, Str_SINGLE))
                     @@ ("m1" :> User("HDBManager", 40, Str_Married)),
                   <<Row("Acacia", "Yishun", labels[1], t1_units,
                         labels[2], t2_units, <<>>, <<>>, "m1", 1, <<>>),
                     Row("Birch", "Bedok", "2-Room", 0, "3-Room", 1,
                         <<>>, <<>>, "m1", 1, <<>>)>>)

NextView ==
    \/ \E u \in Appliers : viewProjects(u)
    \/ \E m \in Managers, p \in ProjectIds, isVisible \in BOOLEAN :
         toggleProjectVisibility(m, p, isVisible)
    \/ \E p \in ProjectIds, isVisible \in BOOLEAN : toggleVisibility(p, isVisible)

SpecView == InitView /\ [][NextView]_vars

\* The project registry: none, one or two projects loaded from the file,
\* then the manager creates projects (with numbers and texts that are no
\* numbers) and edits them by ID through the menu.
LoadedRows ==
    <<Row("Acacia", "Yishun", "2-Room", 1, "3-Room", 1, <<>>, <<>>, "m1", 1, <<>>),
      Row("Birch", "Bedok", "2-Room", 0, "3-Room", 1, <<>>, <<>>, "m1", 1, <<>>)>>

InitProjects ==
    \E n \in 0 .. Len(LoadedRows) :
        LoadedFrom(("a1" :> User("Applicant", 36, Str_Single))
                     @@ ("m1" :> User("HDBManager", 40, Str_Married)),
                   SubSeq(LoadedRows, 1, n))

NextProjects ==
    \/ \E m \in Managers, pname \in NameInputs, t1_units \in NumberInputs,
          t1_price \in NumberInputs :
         main_createProject(m, pname, "Bedok", t1_units, t1_price, "1", "1",
                            <<>>, <<>>, "1")
    \/ \E m \in Managers, pid \in PidInputs, new_name \in NameInputs,
          new_nbhd \in NameInputs :
         main_editProject(m, pid, new_name, new_nbhd)

SpecProjects == InitProjects /\ [][NextProjects]_vars

\* The manager menus: two projects of two managers; an applicant applies and
\* asks for withdrawal, an officer (single, under 35) registers, and each
\* manager decides through the three queues of the menu.
InitQueues ==
    LoadedFrom(("a1" :> User("Applicant", 36, Str_Single))
                 @@ ("o1" :> User("HDBOfficer", 30, Str_Single))
                 @@ ("m1" :> User("HDBManager", 40, Str_Married))
                 @@ ("m2" :> User("HDBManager", 45, Str_Single)),
               <<Row("Acacia", "Yishun", "2-Room", 1, "3-Room", 1, <<>>, <<>>,
                     "m1", 1, <<>>),
                 Row("Birch", "Bedok", "2-Room", 1, "3-Room", 1, <<>>, <<>>,
                     "m2", 1, <<>>)>>)

NextQueues ==
    \/ \E u \in Appliers, p \in ProjectIds, ft \in FlatTypeArgs :
         applyForProject(u, p, ft)
    \/ \E u \in Appliers, c \in ChoiceInputs : requestWithdrawal(u, c)
    \/ \E o \in Officers, p \in ProjectIds : registerToProject(o, p)
    \/ \E m \in Managers, c \in ChoiceInputs, d \in DecisionInputs :
         main_decideApplication(m, c, d)
    \/ \E m \in Managers, c \in ChoiceInputs, d \in DecisionInputs :
         main_decideWithdrawal(m, c, d)
    \/ \E m \in Managers, c \in ChoiceInputs, d \in DecisionInputs :
         main_decideOfficer(m, c, d)

SpecQueues == InitQueues /\ [][NextQueues]_vars

\* Interleaved callers: an applicant, two officers (single, under 35) and
\* one project with one officer slot. Applying and approving an officer are
\* taken either as one step or as a check step and a later act step; the
\* officers register in one step.
InitRace ==
    Loaded(("a1" :> User("Applicant", 36, Str_Single))
             @@ ("o1" :> User("HDBOfficer", 30, Str_Single))
             @@ ("o2" :> User("HDBOfficer", 30, Str_Single))
             @@ ("m1" :> User("HDBManager", 40, Str_Married)),
           "p1" :> BTOProject(1, "Acacia", "Yishun", ("2-Room" :> 1) @@ ("3-Room" :> 1),
                             NoDate, NoDate, "m1", 1))

NextRace ==
    \/ \E u \in Appliers, p \in ProjectIds, ft \in FlatTypeArgs :
         applyForProject(u, p, ft)
    \/ \E u \in Appliers, p \in ProjectIds, ft \in FlatTypeArgs :
         applyForProject_check(u, p, ft)
    \/ \E k \in DOMAIN in_flight : applyForProject_act(k)
    \/ \E o \in Officers, p \in ProjectIds : registerToProject(o, p)
    \/ \E m \in Managers, o \in Officers, d \in BOOLEAN :
         approveOrRejectHDBOfficerRegistration(m, o, d)
    \/ \E m \in Managers, o \in Officers : approveOfficer_check(m, o)
    \/ \E k \in DOMAIN in_flight : approveOfficer_act(k)

SpecRace == InitRace /\ [][NextRace]_vars

\* The officer lists of the project file: two rows whose Officer columns are
\* drawn from OfficerColumns and the second's slot count from 0 .. MaxSlot,
\* then registrations and the manager's decisions.
InitRoster ==
    \E off_names1 \in OfficerColumns, off_names2 \in OfficerColumns,
       slot \in 0 .. MaxSlot :
        LoadedFrom(("o1" :> User("HDBOfficer", 30, Str_Married))
                     @@ ("o2" :> User("HDBOfficer", 30, Str_Single))
                     @@ ("m1" :> User("HDBManager", 40, Str_Married)),
                   <<Row("Acacia", "Yishun", "2-Room", 1, "3-Room", 1, <<>>, <<>>,
                         "m1", 2, off_names1),
                     Row("Birch", "Bedok", "2-Room", 1, "3-Room", 1, <<>>, <<>>,
                         "m1", slot, off_names2)>>)

NextRoster ==
    \/ \E o \in Officers, p \in ProjectIds : registerToProject(o, p)
    \/ \E m \in Managers, o \in Officers, d \in BOOLEAN :
         approveOrRejectHDBOfficerRegistration(m, o, d)
    \/ \E p \in ProjectIds, o \in Officers : registerHDBOfficer(p, o)

SpecRoster == InitRoster /\ [][NextRoster]_vars

-----------------------------------------------------------------------------
(* Vocabulary of the properties, written from the specification's words and
   read off the controller's list, not off the operators above *)

ActiveStatuses == {"Pending", "Successful"}
TerminalStatuses == {"Unsuccessful", "Booked"}

\* The applications of a person
AppsOf(u) == {i \in AppIds : applications[i].applicant = u}

\* The person holds an active application
HoldsActive(u) ==
    \E i \in AppsOf(u) : applications[i].applicationStatus \in ActiveStatuses

\* Spellings of "single" that the marital status field may carry
IsSingle(u) == all_users[u].marital_status \in {Str_Single, Str_single, Str_SINGLE}

\* eligibleFlatTypes of the specification (section 4.2)
eligibleFlatTypes(u) ==
    IF IsSingle(u)
    THEN IF all_users[u].age < 35 THEN {} ELSE {"2-Room"}
    ELSE IF all_users[u].age < 21 THEN {} ELSE {"2-Room", "3-Room"}

\* The project has the flat type and more than 0 units of it remain
HasUnits(p, ft) ==
    /\ ft \in DOMAIN projects[p].flatTypes
    /\ projects[p].flatTypes[ft] > 0

\* The messages with which applyForProject refuses a request
ApplyRefusals == {"ActiveExists", "SingleUnder35", "SingleOnly2Room",
                  "MarriedUnder21", "MarriedOnly2Or3Room", "NoUnits"}

-----------------------------------------------------------------------------
\* C1: in every reachable state each person (applicant or officer) has at
\* most one application whose status is Pending or Successful, counted in the
\* controller's list and in the person's own list.
C1_AtMostOneActive ==
    \A u \in Appliers :
        /\ Cardinality({i \in AppsOf(u) :
                          applications[i].applicationStatus \in ActiveStatuses}) <= 1
        /\ Cardinality({k \in DOMAIN user_applications[u] :
                          applications[user_applications[u][k]].applicationStatus
                            \in ActiveStatuses}) <= 1

\* A person who applied again after an application ended: two applications,
\* the second one active.
C1_Witness ==
    \E u \in Appliers :
        /\ Len(user_applications[u]) = 2
        /\ applications[user_applications[u][1]].applicationStatus = "Unsuccessful"
        /\ applications[user_applications[u][2]].applicationStatus \in ActiveStatuses

\* C2: in every step the status of an application changes only along
\* Pending->Successful, Pending->Unsuccessful, Successful->Unsuccessful or
\* Successful->Booked, and an Unsuccessful or Booked application keeps its
\* status.
C2_StatusTransitions ==
    [][\A i \in AppIds :
         /\ applications'[i].applicationStatus # applications[i].applicationStatus
              => <<applications[i].applicationStatus,
                   applications'[i].applicationStatus>>
                   \in {<<"Pending", "Successful">>, <<"Pending", "Unsuccessful">>,
                        <<"Successful", "Unsuccessful">>, <<"Successful", "Booked">>}
         /\ applications[i].applicationStatus \in TerminalStatuses
              => applications'[i].applicationStatus = applications[i].applicationStatus
      ]_vars

\* An approved application that has just been made Unsuccessful by an
\* approved withdrawal, next to one that was rejected while Pending.
C2_Witness ==
    /\ last = Msg("approveOrRejectWithdrawal", "WithdrawalApproved")
    /\ \E i \in AppIds : applications[i].applicationStatus = "Unsuccessful"
    /\ \E i \in AppIds : applications[i].applicationStatus = "Successful"

\* C3: for every person and every flat type, the eligibility gate of
\* applyForProject lets the request through exactly when the flat type is in
\* eligibleFlatTypes(person): a person without an active application gets
\* past the age / marital status / flat type checks (to the unit check, and
\* to submission when units remain) iff the flat type is eligible.
C3_EligibilityGate ==
    \A u \in Appliers, p \in ProjectIds, ft \in FlatTypeArgs :
        /\ (eligibility_check(u, ft) = "ok") <=> (ft \in eligibleFlatTypes(u))
        /\ ~HoldsActive(u) =>
             ((applyForProject_msg(u, p, ft) \in {"KeyError", "NoUnits", "Submitted"})
                <=> (ft \in eligibleFlatTypes(u)))
        /\ (~HoldsActive(u) /\ HasUnits(p, ft)) =>
             ((applyForProject_msg(u, p, ft) = "Submitted")
                <=> (ft \in eligibleFlatTypes(u)))

\* A single person of exactly 35 (spelled in capitals) whose application for
\* a 2-Room flat has been submitted.
C3_Witness ==
    /\ last = Msg("applyForProject", "Submitted")
    /\ \E i \in AppIds :
         /\ all_users[applications[i].applicant].age = 35
         /\ all_users[applications[i].applicant].marital_status = Str_SINGLE
         /\ applications[i].chosen_flat_type = "2-Room"

\* C4 as the specification words it: applying while holding a Pending or
\* Successful application is refused, and applying once every earlier
\* application is Unsuccessful or Booked succeeds (stated here for the flat
\* types the person is eligible for).
C4_ReapplyAlwaysSucceeds ==
    \A u \in Appliers, p \in ProjectIds, ft \in FlatTypeArgs :
        /\ HoldsActive(u) => applyForProject_msg(u, p, ft) = "ActiveExists"
        /\ (AppsOf(u) # {} /\ ~HoldsActive(u) /\ ft \in eligibleFlatTypes(u))
             => applyForProject_msg(u, p, ft) = "Submitted"

\* C4, amended: applying while holding a Pending or Successful application
\* is always refused and creates no application, in the person's list or in
\* the controller's; once every earlier application is Unsuccessful or
\* Booked the request is no longer refused as a duplicate, and it creates a
\* new application exactly when the flat type is eligible for the person and
\* the project has more than 0 units of it left.
C4_ActiveBlocks_ReapplyNeedsUnits ==
    /\ [](\A u \in Appliers, p \in ProjectIds, ft \in FlatTypeArgs :
            /\ HoldsActive(u) => applyForProject_msg(u, p, ft) = "ActiveExists"
            /\ ~HoldsActive(u) =>
                 /\ applyForProject_msg(u, p, ft) # "ActiveExists"
                 /\ (applyForProject_msg(u, p, ft) = "Submitted")
                      <=> (ft \in eligibleFlatTypes(u) /\ HasUnits(p, ft)))
    /\ [][/\ (applications' # applications
                \/ user_applications' # user_applications) =>
               \A u \in Appliers :
                  HoldsActive(u) =>
                    /\ user_applications'[u] = user_applications[u]
                    /\ AppsOf(u)' = AppsOf(u)
          /\ (last'.op = "applyForProject" /\ vars' # vars) =>
               \A u \in Appliers, p \in ProjectIds, ft \in FlatTypeArgs :
                  applyForProject(u, p, ft) =>
                    /\ ~HoldsActive(u)
                    /\ ft \in eligibleFlatTypes(u)
                    /\ HasUnits(p, ft)
                    /\ Len(applications') = Len(applications) + 1
                    /\ Len(user_applications'[u]) = Len(user_applications[u]) + 1
                    /\ AppsOf(u)' = AppsOf(u) \cup {Len(applications')}
      ]_vars

\* A person whose first application ended Unsuccessful and whose second
\* application has just been submitted.
C4_Witness ==
    /\ last = Msg("applyForProject", "Submitted")
    /\ \E u \in Appliers :
         /\ Len(user_applications[u]) = 2
         /\ applications[user_applications[u][1]].applicationStatus = "Unsuccessful"
         /\ applications[user_applications[u][2]].applicationStatus = "Pending"
         /\ user_applications[u][2] = Len(applications)

\* C5: applyForProject is refused and creates no application when the
\* project has zero units of the flat type left or the flat type is not
\* eligible for the requester; a request that succeeds adds exactly one
\* application, Pending and with the withdrawal flag false, to the
\* controller's list and to the requester's list, and leaves the project's
\* unit counts as they were.
C5_ApplyRejectsAndCreates ==
    /\ [](\A u \in Appliers, p \in ProjectIds, ft \in FlatTypeArgs :
            ((ft \in DOMAIN projects[p].flatTypes /\ projects[p].flatTypes[ft] = 0)
               \/ ft \notin eligibleFlatTypes(u))
              => applyForProject_msg(u, p, ft) \in ApplyRefusals)
    /\ [][(applications' # applications \/ user_applications' # user_applications)
            => \/ Len(applications') = Len(applications)
                  /\ user_applications' = user_applications
               \/ \E u \in Appliers, p \in ProjectIds, ft \in FlatTypeArgs :
                    /\ applyForProject(u, p, ft)
                    /\ ft \in eligibleFlatTypes(u)
                    /\ projects[p].flatTypes[ft] # 0
                    /\ applications' =
                         Append(applications,
                                [applicant |-> u, BTOProject |-> p,
                                 applicationStatus |-> "Pending",
                                 chosen_flat_type |-> ft,
                                 requested_withdrawal |-> FALSE])
                    /\ user_applications' =
                         [user_applications EXCEPT
                            ![u] = Append(@, Len(applications'))]
                    /\ projects' = projects
      ]_vars

\* The refused case: a person with no active application asks for a flat
\* type that is eligible for them and of which the project has 0 units left.
C5_Witness ==
    \E u \in Appliers, p \in ProjectIds, ft \in FlatTypeArgs :
        /\ ~HoldsActive(u)
        /\ ft \in eligibleFlatTypes(u)
        /\ projects[p].flatTypes[ft] = 0
        /\ Len(applications) < MaxApps
        /\ applyForProject_msg(u, p, ft) = "NoUnits"

\* The manager owns the project of application i
Owns(m, i) == projects[applications[i].BTOProject].manager = m

\* Units left of the flat type chosen in application i
UnitsFor(i) ==
    projects[applications[i].BTOProject].flatTypes[applications[i].chosen_flat_type]

\* C6: approveOrRejectApplication by the owning manager on a Pending
\* application: approve makes it Successful if more than 0 units of the
\* chosen flat type remain and otherwise fails, the status staying Pending;
\* reject makes it Unsuccessful whatever the unit count. The project's unit
\* counts do not change in either case.
C6_ApproveOrReject ==
    /\ [](\A m \in Managers, i \in AppIds :
            (Owns(m, i) /\ applications[i].applicationStatus = "Pending") =>
               /\ approveOrRejectApplication_msg(m, i, TRUE) =
                    (IF UnitsFor(i) > 0 THEN "Approved" ELSE "NotEnoughUnits")
               /\ approveOrRejectApplication_msg(m, i, FALSE) = "Rejected")
    /\ [][(last'.op = "approveOrRejectApplication" /\ vars' # vars) =>
            \A m \in Managers, i \in AppIds, d \in BOOLEAN :
               (approveOrRejectApplication(m, i, d) /\ Owns(m, i)
                  /\ applications[i].applicationStatus = "Pending") =>
                 /\ projects' = projects
                 /\ (d /\ UnitsFor(i) > 0) =>
                      applications' =
                        [applications EXCEPT ![i].applicationStatus = "Successful"]
                 /\ (d /\ ~(UnitsFor(i) > 0)) => applications' = applications
                 /\ ~d =>
                      applications' =
                        [applications EXCEPT ![i].applicationStatus = "Unsuccessful"]
      ]_vars

\* The failing approval: a Pending application for a flat type whose units
\* an officer has since reduced to 0.
C6_Witness ==
    /\ last.op = "updateFlatAvailability"
    /\ \E m \in Managers, i \in AppIds :
         /\ Owns(m, i)
         /\ applications[i].applicationStatus = "Pending"
         /\ UnitsFor(i) = 0
         /\ approveOrRejectApplication_msg(m, i, TRUE) = "NotEnoughUnits"

\* The application a person selects by typing n at the prompt
Selected(u, c) == user_applications[u][IntOf(c)]
ValidChoice(u, c) ==
    /\ IsIntText(c)
    /\ 1 <= IntOf(c)
    /\ IntOf(c) <= Len(user_applications[u])

\* C7: requestWithdrawal on an application that is Pending or Successful
\* sets its withdrawal flag and leaves its status (and everything else)
\* unchanged; on an application that is Unsuccessful or Booked it is refused
\* and changes neither the flag nor the status.
C7_RequestWithdrawal ==
    /\ [](\A u \in Appliers, c \in ChoiceInputs :
            ValidChoice(u, c) =>
               requestWithdrawal_msg(u, c) =
                 (IF applications[Selected(u, c)].applicationStatus
                       \in ActiveStatuses
                  THEN "WithdrawalRequested" ELSE "CannotWithdraw"))
    /\ [][(last'.op = "requestWithdrawal" /\ vars' # vars) =>
            \A u \in Appliers, c \in ChoiceInputs :
               (ValidChoice(u, c) /\ requestWithdrawal(u, c)) =>
                  IF applications[Selected(u, c)].applicationStatus
                       \in ActiveStatuses
                  THEN /\ applications' =
                            [applications EXCEPT
                               ![Selected(u, c)].requested_withdrawal = TRUE]
                       /\ UNCHANGED <<projects, user_applications>>
                  ELSE UNCHANGED state
      ]_vars

\* A Successful application whose withdrawal has just been requested.
C7_Witness ==
    /\ last = Msg("requestWithdrawal", "WithdrawalRequested")
    /\ \E i \in AppIds :
         /\ applications[i].applicationStatus = "Successful"
         /\ applications[i].requested_withdrawal

\* C8: approveOrRejectWithdrawal changes state only when the withdrawal flag
\* is set and the caller owns the project. Then approve, on a Pending or
\* Successful application, makes it Unsuccessful and clears the flag;
\* approve on any other status fails and changes nothing; reject clears the
\* flag and leaves the status. With the flag clear both decisions change
\* nothing.
C8_ApproveOrRejectWithdrawal ==
    /\ [](\A m \in Managers, i \in AppIds :
            /\ ~Owns(m, i) =>
                 \A d \in BOOLEAN :
                    approveOrRejectWithdrawal_msg(m, i, d) = "NotManager"
            /\ (Owns(m, i) /\ ~applications[i].requested_withdrawal) =>
                 \A d \in BOOLEAN :
                    approveOrRejectWithdrawal_msg(m, i, d) = "NoWithdrawalRequested"
            /\ (Owns(m, i) /\ applications[i].requested_withdrawal) =>
                 /\ approveOrRejectWithdrawal_msg(m, i, TRUE) =
                      (IF applications[i].applicationStatus \in ActiveStatuses
                       THEN "WithdrawalApproved" ELSE "CannotBeWithdrawn")
                 /\ approveOrRejectWithdrawal_msg(m, i, FALSE) = "WithdrawalRejected")
    /\ [][(last'.op = "approveOrRejectWithdrawal" /\ vars' # vars) =>
            \A m \in Managers, i \in AppIds, d \in BOOLEAN :
               approveOrRejectWithdrawal(m, i, d) =>
                 /\ state' # state =>
                      (Owns(m, i) /\ applications[i].requested_withdrawal)
                 /\ (Owns(m, i) /\ applications[i].requested_withdrawal) =>
                      /\ UNCHANGED <<projects, user_applications>>
                      /\ applications' =
                           (IF d
                            THEN IF applications[i].applicationStatus
                                      \in ActiveStatuses
                                 THEN [applications EXCEPT
                                         ![i].applicationStatus = "Unsuccessful",
                                         ![i].requested_withdrawal = FALSE]
                                 ELSE applications
                            ELSE [applications EXCEPT
                                    ![i].requested_withdrawal = FALSE])
      ]_vars

\* The manager has just rejected the withdrawal of a Successful application:
\* the flag is clear again and the status still Successful.
C8_Witness ==
    /\ last = Msg("approveOrRejectWithdrawal", "WithdrawalRejected")
    /\ \E i \in AppIds :
         /\ applications[i].applicationStatus = "Successful"
         /\ ~applications[i].requested_withdrawal

\* C9: booking makes a Successful application Booked and decrements the unit
\* count of its flat type through reduceUnits, so every step that decrements
\* a unit count also turns a Successful application for that project and
\* flat type into Booked.
C9_DecrementBooksAnApplication ==
    [][\A p \in ProjectIds : \A ft \in DOMAIN projects[p].flatTypes :
         projects'[p].flatTypes[ft] < projects[p].flatTypes[ft] =>
            \E i \in AppIds :
               /\ applications[i].BTOProject = p
               /\ applications[i].chosen_flat_type = ft
               /\ applications[i].applicationStatus = "Successful"
               /\ applications'[i].applicationStatus = "Booked"
      ]_vars

\* max(0, n)
Max0(n) == IF n > 0 THEN n ELSE 0

\* C10: reduceUnits(flatType, count) on a flat type the project has sets its
\* unit count to max(0, old - count) for every count, so never below zero,
\* and leaves the other flat types; on a flat type the project does not have
\* it changes nothing. Every step of updateFlatAvailability by the handling
\* officer changes the project's units in that way and nothing else.
C10_ReduceUnitsClamps ==
    /\ [](\A p \in ProjectIds, ft \in FlatTypeArgs, n \in Counts :
            LET old == projects[p].flatTypes
                new == reduceUnits(old, ft, n)
            IN  /\ DOMAIN new = DOMAIN old
                /\ \A t \in DOMAIN old :
                     new[t] = IF t = ft THEN Max0(old[t] - n) ELSE old[t]
                /\ \A t \in DOMAIN old : t = ft => new[t] >= 0
                /\ ft \notin DOMAIN old => new = old)
    /\ [][projects' # projects /\ last'.op = "updateFlatAvailability" =>
            \E o \in Officers, ft \in FlatTypeArgs, n \in Counts :
               /\ handling_project[o] # None
               /\ updateFlatAvailability(o, handling_project[o], ft, n)
               /\ ft \in DOMAIN projects[handling_project[o]].flatTypes
               /\ projects' =
                    [projects EXCEPT
                       ![handling_project[o]].flatTypes[ft] = Max0(@ - n)]
      ]_vars

\* The officer has just recorded a booking that left 0 units of a flat type.
C10_Witness ==
    /\ last = Msg("updateFlatAvailability", "Updated")
    /\ \E p \in ProjectIds : \E ft \in DOMAIN projects[p].flatTypes :
         projects[p].flatTypes[ft] = 0

\* C11: every flat type's unit count is a non-negative integer that never
\* increases, whatever integer the officer types at "number of units booked":
\* in every step each unit count of each project is at least 0 and at most
\* what it was before the step (and so never above the count the project was
\* created with).
C11_UnitCountsNeverIncrease ==
    [][\A p \in ProjectIds : \A ft \in DOMAIN projects[p].flatTypes :
         /\ projects'[p].flatTypes[ft] >= 0
         /\ projects'[p].flatTypes[ft] <= projects[p].flatTypes[ft]
      ]_vars

\* The officers assigned to a project: the ones in its list, and the ones
\* whose handling project it is
AssignedTo(p) ==
    {projects[p].officers[k] : k \in DOMAIN projects[p].officers}
      \cup {o \in Officers : handling_project[o] = p}

\* C12: for projects created with an empty officer list and a capacity of at
\* least 0, after any sequence of register / approve / reject operations the
\* number of officers assigned to a project is at most its officerSlot.
C12_OfficersWithinSlots ==
    \A p \in ProjectIds :
        /\ Len(projects[p].officers) <= projects[p].officerSlot
        /\ Cardinality(AssignedTo(p)) <= projects[p].officerSlot

\* A project whose slots are all taken while another officer's registration
\* for it is Pending.
C12_Witness ==
    \E p \in ProjectIds, o \in Officers :
        /\ projects[p].officerSlot >= 1
        /\ Len(projects[p].officers) = projects[p].officerSlot
        /\ registered_project[o] = p
        /\ registration_status[o] = "Pending"
        /\ handling_project[o] = None

\* The officer holds an application, of whatever status, against the project
AppliedTo(o, p) == \E i \in AppsOf(o) : applications[i].BTOProject = p

\* C13: registerToProject(target) is refused, registeredProject and the
\* registration status staying as they were, if the officer's handling
\* project is not None or the officer holds an application of any status
\* against target; otherwise it sets registeredProject = target and the
\* status to Pending and changes nothing else.
C13_RegisterToProject ==
    /\ [](\A o \in Officers, p \in ProjectIds :
            registerToProject_msg(o, p) =
              (IF handling_project[o] # None THEN "AlreadyHandling"
               ELSE IF AppliedTo(o, p) THEN "AlreadyApplied"
               ELSE "RegistrationSubmitted"))
    /\ [][/\ (registered_project' # registered_project
                \/ (registration_status' # registration_status
                      /\ handling_project' = handling_project
                      /\ \E o \in Officers : registration_status'[o] = "Pending"
                                              /\ registration_status[o] # "Pending"))
               => last' = [op |-> "registerToProject", msg |-> "RegistrationSubmitted"]
          /\ (last'.op = "registerToProject" /\ vars' # vars) =>
               \E o \in Officers, p \in ProjectIds :
                  /\ registerToProject(o, p)
                  /\ handling_project[o] = None
                  /\ ~AppliedTo(o, p)
                  /\ registered_project' = [registered_project EXCEPT ![o] = p]
                  /\ registration_status' =
                       [registration_status EXCEPT ![o] = "Pending"]
                  /\ UNCHANGED <<project_counter, controller_projects, in_flight, all_users, projects, applications,
                                 user_applications, handling_project>>
      ]_vars

\* The refused case that depends on "any status": an officer who handles no
\* project and whose only application against the project is Unsuccessful.
C13_Witness ==
    \E o \in Officers, p \in ProjectIds :
        /\ handling_project[o] = None
        /\ AppsOf(o) # {}
        /\ \A i \in AppsOf(o) :
             /\ applications[i].BTOProject = p
             /\ applications[i].applicationStatus = "Unsuccessful"
        /\ registerToProject_msg(o, p) = "AlreadyApplied"

\* The manager owns the project the officer registered for
OwnsRegistration(m, o) ==
    /\ registered_project[o] # None
    /\ projects[registered_project[o]].manager = m

\* C14: approving an officer registration succeeds only when the officer's
\* status is Pending, the caller owns the registered project and the project
\* has fewer officers than slots; it then appends the officer to the
\* project's officers, sets handlingProject to the project and the status to
\* Approved. With as many officers as slots it fails and changes nothing, so
\* a project with one slot never has two approved officers.
C14_ApproveOfficer ==
    /\ [](/\ \A m \in Managers, o \in Officers :
               /\ (approveOrRejectHDBOfficerRegistration_msg(m, o, TRUE)
                     = "OfficerApproved")
                    <=> /\ OwnsRegistration(m, o)
                        /\ registration_status[o] = "Pending"
                        /\ Len(projects[registered_project[o]].officers)
                             < projects[registered_project[o]].officerSlot
               /\ (/\ OwnsRegistration(m, o)
                   /\ registration_status[o] = "Pending"
                   /\ Len(projects[registered_project[o]].officers)
                        = projects[registered_project[o]].officerSlot)
                    => approveOrRejectHDBOfficerRegistration_msg(m, o, TRUE)
                         = "NoSlots"
          /\ \A p \in ProjectIds :
               projects[p].officerSlot = 1 =>
                  Cardinality({o \in Officers :
                                 /\ registration_status[o] = "Approved"
                                 /\ registered_project[o] = p}) <= 1)
    /\ [][((last' = Msg("approveOrRejectHDBOfficerRegistration", "OfficerApproved")
               /\ vars' # vars)
             \/ handling_project' # handling_project
             \/ \E o \in Officers : /\ registration_status'[o] = "Approved"
                                    /\ registration_status[o] # "Approved") =>
            \E m \in Managers, o \in Officers :
               /\ approveOrRejectHDBOfficerRegistration(m, o, TRUE)
               /\ OwnsRegistration(m, o)
               /\ registration_status[o] = "Pending"
               /\ Len(projects[registered_project[o]].officers)
                    < projects[registered_project[o]].officerSlot
               /\ projects' =
                    [projects EXCEPT
                       ![registered_project[o]].officers = Append(@, o)]
               /\ handling_project' =
                    [handling_project EXCEPT ![o] = registered_project[o]]
               /\ registration_status' =
                    [registration_status EXCEPT ![o] = "Approved"]
               /\ UNCHANGED <<project_counter, controller_projects, in_flight, all_users, applications, user_applications,
                              registered_project>>
      ]_vars

\* One officer has just been approved for a project with one slot and a
\* second officer is Pending for the same project: the approval of the
\* second is refused for lack of slots.
C14_Witness ==
    /\ last = Msg("approveOrRejectHDBOfficerRegistration", "OfficerApproved")
    /\ \E p \in ProjectIds, o \in Officers, m \in Managers :
         /\ projects[p].officerSlot = 1
         /\ Len(projects[p].officers) = 1
         /\ registered_project[o] = p
         /\ registration_status[o] = "Pending"
         /\ approveOrRejectHDBOfficerRegistration_msg(m, o, TRUE) = "NoSlots"

\* C15 as the specification words it: in every step, a registration status
\* that changes goes None->Pending, Pending->Approved or Pending->Rejected.
C15_OnlyThreeTransitions ==
    [][\A o \in Officers :
         registration_status'[o] # registration_status[o] =>
            <<registration_status[o], registration_status'[o]>>
              \in {<<None, "Pending">>, <<"Pending", "Approved">>,
                   <<"Pending", "Rejected">>}
      ]_vars

\* C15, amended: in every step, a registration status that changes goes
\* None->Pending or Rejected->Pending (register; a rejected officer may
\* register again), Pending->Approved (manager approve) or Pending->Rejected
\* (manager reject); an Approved status never changes.
C15_RegistrationTransitions ==
    [][\A o \in Officers :
         registration_status'[o] # registration_status[o] =>
            \/ /\ registration_status[o] \in {None, "Rejected"}
               /\ registration_status'[o] = "Pending"
               /\ last'.op = "registerToProject"
            \/ /\ registration_status[o] = "Pending"
               /\ registration_status'[o] = "Approved"
               /\ last' = [op |-> "approveOrRejectHDBOfficerRegistration",
                           msg |-> "OfficerApproved"]
            \/ /\ registration_status[o] = "Pending"
               /\ registration_status'[o] = "Rejected"
               /\ last' = [op |-> "approveOrRejectHDBOfficerRegistration",
                           msg |-> "OfficerRejected"]
      ]_vars

\* Both decisions have been taken: one officer is Approved, another has just
\* been Rejected and may register again.
C15_Witness ==
    /\ last = Msg("approveOrRejectHDBOfficerRegistration", "OfficerRejected")
    /\ \E o \in Officers : registration_status[o] = "Approved"
    /\ \E o \in Officers, p \in ProjectIds :
         /\ registration_status[o] = "Rejected"
         /\ registerToProject_msg(o, p) = "RegistrationSubmitted"

\* C16: in every reachable state an officer's handling project is not None
\* only when the officer's registration status is Approved, and it then
\* equals the officer's registered project.
C16_HandlingIsApprovedRegistration ==
    \A o \in Officers :
        handling_project[o] # None =>
           /\ registration_status[o] = "Approved"
           /\ handling_project[o] = registered_project[o]

\* C17: in every reachable state no officer has a registration that is
\* Pending or Approved for a project against which the same officer holds a
\* Pending or Successful application, whichever came first.
C17_NoRegistrationWithActiveApplication ==
    \A o \in Officers, p \in ProjectIds :
        (registered_project[o] = p
           /\ registration_status[o] \in {"Pending", "Approved"})
          => ~\E i \in AppsOf(o) :
                 /\ applications[i].BTOProject = p
                 /\ applications[i].applicationStatus \in ActiveStatuses

\* C18: no operation ends in an exception: in every reachable state and for
\* every argument, applyForProject and approveOrRejectApplication end in a
\* success or a reported failure, never in the KeyError of a flat type the
\* project does not have.
C18_NoExceptionEscapes ==
    /\ \A u \in Appliers, p \in ProjectIds, ft \in FlatTypeArgs :
          applyForProject_msg(u, p, ft) # "KeyError"
    /\ \A m \in Managers, i \in AppIds, d \in BOOLEAN :
          approveOrRejectApplication_msg(m, i, d) # "KeyError"

\* The day lies before the project's open date or after its close date
OutOfWindow(p, today) ==
    \/ /\ projects[p].applicationOpenDate # NoDate
       /\ ~DateLE(projects[p].applicationOpenDate, today)
    \/ /\ projects[p].applicationCloseDate # NoDate
       /\ ~DateLE(today, projects[p].applicationCloseDate)

\* C19: an application request made through a menu on a day before the
\* project's open date or after its close date is rejected and creates no
\* application, for applicants and officers and for every project, also one
\* of whose dates is missing.
C19_OutOfWindowIsRejected ==
    [][applications' # applications =>
         \A u \in Appliers, pid \in PidInputs, today \in Todays,
            ft_input \in FlatInputs :
            (main_apply(u, pid, today, ft_input)
               /\ Len(applications') = Len(applications) + 1)
              => ~OutOfWindow(applications'[Len(applications')].BTOProject, today)
      ]_vars

\* The Booked applications, and the Booked applications of a person
BookedApps == {i \in AppIds : applications[i].applicationStatus = "Booked"}
BookedOf(u) == {i \in AppsOf(u) : applications[i].applicationStatus = "Booked"}

\* The elements of a sequence
Elems(seq) == {seq[k] : k \in DOMAIN seq}

\* C20: generateReceipt for an applicant produces a receipt, for one of the
\* applicant's Booked applications, exactly when the applicant has a Booked
\* application, and fails otherwise; generateApplicantReport lists exactly
\* the Booked applications, each once; neither operation changes any state.
C20_ReceiptAndReport ==
    /\ [](/\ \A a \in Applicants :
               /\ (generateReceipt_msg(a) = "Receipt") <=> (BookedOf(a) # {})
               /\ (generateReceipt_msg(a) = "NoBooked") <=> (BookedOf(a) = {})
               /\ Elems(generateReceipt_out(a)) \subseteq BookedOf(a)
               /\ Len(generateReceipt_out(a)) = (IF BookedOf(a) = {} THEN 0 ELSE 1)
          /\ Elems(generateApplicantReport_out(applications)) = BookedApps
          /\ Len(generateApplicantReport_out(applications)) = Cardinality(BookedApps))
    /\ [][last'.op \in {"generateReceipt", "generateApplicantReport"} =>
            /\ state' = state
            /\ last'.op = "generateReceipt" =>
                 \E a \in Applicants :
                    /\ last'.msg = (IF BookedOf(a) # {} THEN "Receipt" ELSE "NoBooked")
                    /\ Elems(last'.out) \subseteq BookedOf(a)
                    /\ Len(last'.out) = (IF BookedOf(a) = {} THEN 0 ELSE 1)
            /\ last'.op = "generateApplicantReport" =>
                 Elems(last'.out) = BookedApps
      ]_vars

\* A receipt has just been produced for an applicant who has a Booked
\* application next to one that is not Booked.
C20_Witness ==
    /\ last.op = "generateReceipt"
    /\ last.msg = "Receipt"
    /\ \E a \in Applicants :
         /\ Elems(last.out) \subseteq BookedOf(a)
         /\ last.out # <<>>
         /\ \E i \in AppsOf(a) : applications[i].applicationStatus # "Booked"

\* C21: approveOrRejectApplication on an application that is not Pending
\* fails for both decisions, whoever calls it, and leaves the application's
\* status, its withdrawal flag and the project's unit counts unchanged.
C21_NotPendingIsRefused ==
    /\ [](\A m \in Managers, i \in AppIds, d \in BOOLEAN :
            applications[i].applicationStatus # "Pending" =>
               approveOrRejectApplication_msg(m, i, d)
                 \in {"NotManager", "NotPending"})
    /\ [][(last'.op = "approveOrRejectApplication" /\ vars' # vars) =>
            /\ projects' = projects
            /\ \A i \in AppIds :
                 applications[i].applicationStatus # "Pending" =>
                    applications'[i] = applications[i]
      ]_vars

\* An application that was approved and is Successful: a second decision on
\* it by the owning manager is refused because it is not Pending.
C21_Witness ==
    /\ last = Msg("approveOrRejectApplication", "Approved")
    /\ \E m \in Managers, i \in AppIds :
         /\ applications[i].applicationStatus = "Successful"
         /\ approveOrRejectApplication_msg(m, i, TRUE) = "NotPending"
         /\ approveOrRejectApplication_msg(m, i, FALSE) = "NotPending"

\* C22: a guarded operation called without authority changes nothing:
\* approveOrRejectApplication, approveOrRejectWithdrawal,
\* approveOrRejectHDBOfficerRegistration, toggleProjectVisibility and
\* editBTOProject by a manager who is not the project's manager, and
\* updateFlatAvailability by an officer whose handling project is another
\* one or none.
C22_UnauthorizedChangesNothing ==
    /\ [](/\ \A m \in Managers, i \in AppIds, d \in BOOLEAN :
               ~Owns(m, i) =>
                  /\ approveOrRejectApplication_msg(m, i, d) = "NotManager"
                  /\ approveOrRejectWithdrawal_msg(m, i, d) = "NotManager"
          /\ \A m \in Managers, o \in Officers, d \in BOOLEAN :
               (registered_project[o] # None /\ ~OwnsRegistration(m, o)) =>
                  approveOrRejectHDBOfficerRegistration_msg(m, o, d) = "NotManager")
    /\ [][/\ \A m \in Managers, i \in AppIds, d \in BOOLEAN :
              ~Owns(m, i) =>
                 /\ approveOrRejectApplication(m, i, d) => state' = state
                 /\ approveOrRejectWithdrawal(m, i, d) => state' = state
          /\ \A m \in Managers, o \in Officers, d \in BOOLEAN :
              ~OwnsRegistration(m, o) =>
                 (approveOrRejectHDBOfficerRegistration(m, o, d) => state' = state)
          /\ \A m \in Managers, p \in ProjectIds :
              projects[p].manager # m =>
                 /\ \A isVisible \in BOOLEAN :
                      toggleProjectVisibility(m, p, isVisible) => state' = state
                 /\ \A new_name \in EditNames, new_flat_types \in EditFlatTypes :
                      editBTOProject(m, p, new_name, None, new_flat_types)
                        => state' = state
          /\ \A o \in Officers, p \in ProjectIds :
              handling_project[o] # p =>
                 \A ft \in FlatTypeArgs, n \in Counts :
                    updateFlatAvailability(o, p, ft, n) => state' = state
      ]_vars

\* Manager "m2", who owns no project, faces a Pending application with a
\* withdrawal request and a Pending officer registration, both of a project
\* of "m1", while the officer handles no project: each of the six calls is
\* open to an actor without authority.
C22_Witness ==
    /\ \E i \in AppIds :
         /\ ~Owns("m2", i)
         /\ applications[i].applicationStatus = "Pending"
         /\ applications[i].requested_withdrawal
         /\ approveOrRejectApplication_msg("m2", i, TRUE) = "NotManager"
         /\ approveOrRejectWithdrawal_msg("m2", i, TRUE) = "NotManager"
    /\ \E o \in Officers :
         /\ registration_status[o] = "Pending"
         /\ registered_project[o] # None
         /\ ~OwnsRegistration("m2", o)
         /\ handling_project[o] = None
         /\ approveOrRejectHDBOfficerRegistration_msg("m2", o, TRUE) = "NotManager"

\* The projects the specification says a person is shown: visible, with at
\* least one unit left of a flat type the person is eligible for
Shown(u) ==
    {p \in Elems(controller_projects) :
        /\ projects[p].visibility
        /\ \E ft \in eligibleFlatTypes(u) : HasUnits(p, ft)}

\* C23: viewProjects lists a project for a person exactly when the project
\* is visible and has at least one unit left of a flat type of the person's
\* eligibleFlatTypes; with an empty eligible set it lists nothing. The flat
\* types it looks for are the ones the eligibility checks of applyForProject
\* accept for the person.
C23_ViewMatchesEligibility ==
    /\ \A u \in Appliers :
         /\ Elems(viewProjects_out(u)) = Shown(u)
         /\ eligibleFlatTypes(u) = {} =>
               /\ viewProjects_out(u) = <<>>
               /\ viewProjects_msg(u) = "NoProjectsEligible"
         /\ \A ft \in FlatTypeArgs :
               (~view_blocked(u) /\ ft \in Elems(can_apply_types(u)))
                 <=> eligibility_check(u, ft) = "ok"
    /\ last.op = "viewProjects" => Elems(last.out) = Shown(last.user)

\* A single person of 35 or more has viewed the list and was shown one
\* project but not another one that is visible and has only 3-Room units.
C23_Witness ==
    /\ last.op = "viewProjects"
    /\ IsSingle(last.user)
    /\ last.out # <<>>
    /\ \E p \in ProjectIds :
         /\ p \notin Elems(last.out)
         /\ projects[p].visibility
         /\ HasUnits(p, "3-Room")

\* The registered projects that have the ID
WithID(pid) == {p \in Elems(controller_projects) : projects[p].projectID = pid}

\* C24: project IDs come from one counter: in the order of creation, loaded
\* and manager-created projects alike, each ID is strictly greater than every
\* earlier one, so no two projects share an ID; findProjectByID(id) is the
\* one registered project with that ID, or nothing when there is none.
C24_SequentialProjectIDs ==
    /\ \A j, k \in DOMAIN controller_projects :
         j < k => projects[controller_projects[j]].projectID
                    < projects[controller_projects[k]].projectID
    /\ \A p \in ProjectIds : projects[p].projectID < project_counter
    /\ \A pid \in 0 .. MaxProjects + 1 :
         /\ Cardinality(WithID(pid)) <= 1
         /\ WithID(pid) = {} => findProjectByID(pid) = None
         /\ WithID(pid) # {} => WithID(pid) = {findProjectByID(pid)}

\* A project was created by the manager after another one was loaded; each
\* is found by its own ID and the next ID finds nothing.
C24_Witness ==
    /\ last = Msg("createBTOProject", "Created")
    /\ projects["p1"].projectName = "Acacia"
    /\ Len(controller_projects) >= 2
    /\ \A k \in DOMAIN controller_projects :
         findProjectByID(projects[controller_projects[k]].projectID)
           = controller_projects[k]
    /\ findProjectByID(project_counter) = None

\* C25: the manager's queues are filters of the lists: the approval queue
\* holds exactly the Pending applications of the manager's projects, the
\* withdrawal queue exactly the applications of the manager's projects with
\* the withdrawal flag set, the officer queue exactly the officers with a
\* Pending registration for a project of the manager. An entry of the
\* approval or officer queue passes the ownership and Pending checks of the
\* approve/reject operation, and a decision made through a queue touches
\* only an entry of that queue.
C25_QueuesAreFilters ==
    /\ [](\A m \in Managers :
            /\ Elems(pending_apps(m)) =
                 {i \in AppIds : /\ applications[i].applicationStatus = "Pending"
                                 /\ Owns(m, i)}
            /\ Elems(w_apps(m)) =
                 {i \in AppIds : applications[i].requested_withdrawal /\ Owns(m, i)}
            /\ Elems(pending_officers(m)) =
                 {o \in Officers : /\ registration_status[o] = "Pending"
                                   /\ OwnsRegistration(m, o)}
            /\ \A k \in DOMAIN pending_apps(m), d \in BOOLEAN :
                 approveOrRejectApplication_msg(m, pending_apps(m)[k], d)
                   \notin {"NotManager", "NotPending"}
            /\ \A k \in DOMAIN pending_officers(m), d \in BOOLEAN :
                 approveOrRejectHDBOfficerRegistration_msg(m, pending_officers(m)[k], d)
                   \notin {"NoRegistration", "NotManager", "RegistrationNotPending"})
    /\ [][/\ last'.op = "approveOrRejectApplication" /\ vars' # vars =>
              \A i \in AppIds :
                 applications'[i] # applications[i] =>
                    i \in Elems(pending_apps(projects[applications[i].BTOProject].manager))
          /\ last'.op = "approveOrRejectWithdrawal" /\ vars' # vars =>
              \A i \in AppIds :
                 applications'[i] # applications[i] =>
                    i \in Elems(w_apps(projects[applications[i].BTOProject].manager))
          /\ last'.op = "approveOrRejectHDBOfficerRegistration" /\ vars' # vars =>
              \A o \in Officers :
                 registration_status'[o] # registration_status[o] =>
                    o \in Elems(pending_officers(projects[registered_project[o]].manager))
      ]_vars

\* Manager "m1" has rejected an application through the approval queue;
\* manager "m2" has a Pending application with a withdrawal request and a
\* Pending officer registration in the queues, and "m1" has none of them.
C25_Witness ==
    /\ \E i \in AppIds :
         Owns("m1", i) /\ applications[i].applicationStatus = "Unsuccessful"
    /\ pending_apps("m2") # <<>>
    /\ w_apps("m2") # <<>>
    /\ pending_officers("m2") # <<>>
    /\ pending_apps("m1") = <<>>
    /\ pending_officers("m1") = <<>>

\* A person with two active applications
TwoActive ==
    \E u \in Appliers :
        Cardinality({i \in AppsOf(u) :
                       applications[i].applicationStatus \in ActiveStatuses}) >= 2

\* A project with more officers than slots
OverSlot == \E p \in ProjectIds : Len(projects[p].officers) > projects[p].officerSlot

\* The checks of a call in flight would no longer pass
Stale(call) ==
    IF call.op = "applyForProject"
    THEN applyForProject_msg(call.actor, call.target, call.arg) # "Submitted"
    ELSE approveOrRejectHDBOfficerRegistration_msg(call.actor, call.target, TRUE)
           # "OfficerApproved"

\* C26: the two invariants rest on each operation being one step. A step
\* that takes an operation whole (no call enters or leaves in_flight) never
\* leads to a person with two active applications or to a project with more
\* officers than slots; such a state arises only by the act step of a call
\* whose checks passed earlier and would fail now, and it does arise: by two
\* interleaved applies of one person and by two interleaved officer
\* approvals.
C26_BadStatesNeedInterleaving ==
    /\ [](in_flight = <<>> /\ last = Msg("main", "Loaded")
            => ~TwoActive /\ ~OverSlot)
    /\ [][/\ in_flight' = in_flight =>
               /\ ~TwoActive => ~TwoActive'
               /\ ~OverSlot => ~OverSlot'
          /\ ((~TwoActive /\ TwoActive') \/ (~OverSlot /\ OverSlot')) =>
               \E k \in DOMAIN in_flight :
                  /\ in_flight' = Remove(in_flight, k)
                  /\ Stale(in_flight[k])
      ]_vars

\* Both bad states at once: the applicant holds two active applications and
\* the project with one slot has two officers, and no call is in flight.
C26_Witness ==
    /\ TwoActive
    /\ OverSlot
    /\ in_flight = <<>>

\* C27 as stated: an application whose withdrawal flag is true has status
\* Pending or Successful.
C27_FlagImpliesActive ==
    \A i \in AppIds :
        applications[i].requested_withdrawal =>
           applications[i].applicationStatus \in {"Pending", "Successful"}

\* The application is Unsuccessful and its withdrawal flag is set
FlaggedUnsuccessful(apps, i) ==
    apps[i].requested_withdrawal /\ apps[i].applicationStatus = "Unsuccessful"

\* C27, amended: an application whose withdrawal flag is true has status
\* Pending, Successful or Unsuccessful. The flag is raised only by
\* requestWithdrawal on a Pending or Successful application; a flagged
\* application becomes Unsuccessful with the flag still set only when the
\* manager rejects the Pending application. For the owning manager, approval
\* of a flagged withdrawal succeeds when the status is Pending or Successful
\* and fails, leaving the flag set, when it is Unsuccessful; rejection
\* always succeeds; every decision on a withdrawal that is carried out
\* clears the flag.
C27_FlagAndStatus ==
    /\ [](\A i \in AppIds :
            applications[i].requested_withdrawal =>
               /\ applications[i].applicationStatus
                    \in {"Pending", "Successful", "Unsuccessful"}
               /\ \A m \in Managers :
                    Owns(m, i) =>
                      /\ approveOrRejectWithdrawal_msg(m, i, TRUE) =
                           (IF applications[i].applicationStatus = "Unsuccessful"
                            THEN "CannotBeWithdrawn" ELSE "WithdrawalApproved")
                      /\ approveOrRejectWithdrawal_msg(m, i, FALSE)
                           = "WithdrawalRejected")
    /\ [][\A i \in AppIds :
            /\ (~applications[i].requested_withdrawal
                   /\ applications'[i].requested_withdrawal) =>
                  /\ last' = Msg("requestWithdrawal", "WithdrawalRequested")
                  /\ applications[i].applicationStatus \in {"Pending", "Successful"}
                  /\ applications'[i].applicationStatus
                       = applications[i].applicationStatus
            /\ (~FlaggedUnsuccessful(applications, i)
                   /\ FlaggedUnsuccessful(applications', i)) =>
                  /\ last' = Msg("approveOrRejectApplication", "Rejected")
                  /\ applications[i].applicationStatus = "Pending"
                  /\ applications[i].requested_withdrawal
            /\ (last'.op = "approveOrRejectWithdrawal"
                   /\ applications'[i] # applications[i]) =>
                  /\ applications[i].requested_withdrawal
                  /\ ~applications'[i].requested_withdrawal
      ]_vars

\* An application that was rejected while its withdrawal request was open:
\* Unsuccessful with the flag set, in the owning manager's withdrawal queue,
\* and approval of the withdrawal fails.
C27_Witness ==
    \E i \in AppIds, m \in Managers :
        /\ FlaggedUnsuccessful(applications, i)
        /\ Owns(m, i)
        /\ i \in Elems(w_apps(m))
        /\ approveOrRejectWithdrawal_msg(m, i, TRUE) = "CannotBeWithdrawn"

\* The Successful applications for a flat type of a project
SuccessfulFor(p, ft) ==
    {i \in AppIds : /\ applications[i].BTOProject = p
                    /\ applications[i].chosen_flat_type = ft
                    /\ applications[i].applicationStatus = "Successful"}

\* C28: for every project and flat type, the number of Successful
\* applications for that flat type is at most the flat type's remaining unit
\* count.
C28_SuccessfulWithinUnits ==
    \A p \in ProjectIds : \A ft \in DOMAIN projects[p].flatTypes :
        Cardinality(SuccessfulFor(p, ft)) <= projects[p].flatTypes[ft]

\* C29: an officer is in a project's officer list exactly when the project
\* is the officer's handling project, and is in that list once; so an
\* officer is in the list of at most one project.
C29_ListedIffHandling ==
    \A o \in Officers, p \in ProjectIds :
        /\ (o \in Elems(projects[p].officers)) <=> (handling_project[o] = p)
        /\ Cardinality({k \in DOMAIN projects[p].officers :
                          projects[p].officers[k] = o}) <= 1

\* C30: approval of an officer is permanent. An officer whose registration
\* status is Approved handles a project, is in that project's officer list
\* and is refused by registerToProject for every project; and no step
\* changes the status, the handling project or the registered project of
\* such an officer or takes the officer out of the list.
C30_ApprovalIsPermanent ==
    /\ [](\A o \in Officers :
            registration_status[o] = "Approved" =>
               /\ handling_project[o] # None
               /\ o \in Elems(projects[handling_project[o]].officers)
               /\ \A p \in ProjectIds :
                    registerToProject_msg(o, p) = "AlreadyHandling"
               /\ \A m \in Managers, d \in BOOLEAN :
                    approveOrRejectHDBOfficerRegistration_msg(m, o, d)
                      \in {"NoRegistration", "NotManager", "RegistrationNotPending"})
    /\ [][\A o \in Officers :
            registration_status[o] = "Approved" =>
               /\ registration_status'[o] = "Approved"
               /\ handling_project'[o] = handling_project[o]
               /\ registered_project'[o] = registered_project[o]
               /\ o \in Elems(projects'[handling_project[o]].officers)
      ]_vars

\* After a decision of the manager: one officer is Approved through a
\* registration, another was Approved by the project file.
C30_Witness ==
    /\ last.op = "approveOrRejectHDBOfficerRegistration"
    /\ \E o \in Officers :
         /\ registration_status[o] = "Approved"
         /\ registered_project[o] # None
    /\ \E o \in Officers :
         /\ registration_status[o] = "Approved"
         /\ registered_project[o] = None

\* C31: no application is created against a project that is hidden at the
\* moment of applying: in every step that appends an application, whether
\* an applicant or an officer applies, the project of the new application
\* is visible.
C31_NoApplicationToHiddenProject ==
    [][Len(applications') = Len(applications) + 1 =>
         projects[applications'[Len(applications')].BTOProject].visibility
      ]_vars

====
